---- MODULE Spec2Model ----
(***************************************************************************)
(* Model of the best-practices MCP server: the topic whitelist, the zod    *)
(* input schema, the resource URI helpers, getPractice with its path       *)
(* containment check and read classification, and the two request          *)
(* handlers (tool call, resource read) of createServer.                    *)
(*                                                                         *)
(* Strings are sequences of characters; a character is a one-letter       *)
(* string, or one of the tokens "NUL" (U+0000), "LF" (U+000A), "KELVIN"    *)
(* (U+212A), "IDOT" (U+0130) and "CDOT" (U+0307).                          *)
(***************************************************************************)
EXTENDS Integers, Sequences, FiniteSets, TLC

VARIABLES fsState, pc, req, parsed, pending, resp, reads, logs, ref,
          guardIn, guardOut, uriIn, uriOut, loadIn, loadOut, calls

vars == <<fsState, pc, req, parsed, pending, resp, reads, logs, ref,
          guardIn, guardOut, uriIn, uriOut, loadIn, loadOut, calls>>

\* the variables of the server serving one request at a time
serverVars == <<pc, req, parsed, pending, resp, reads, logs, ref>>

\* the variables of the path guard, of the URI adapter and of the content
\* loader's catch block, each taken by itself
\* calls holds the getPractice invocations of the parallel callers
guardVars == <<guardIn, guardOut>>
uriVars == <<uriIn, uriOut>>
loadVars == <<loadIn, loadOut>>

(***************************************************************************)
(* Bounds of the model.                                                    *)
(***************************************************************************)
\* at most this many backing files are not plainly readable at a time
MaxFaulty == 1
\* every letter-case variant is generated for the keys up to this length
MaxVariantLen == 5
\* content references of the path-guard corpus have up to this many segments
MaxRefSegs == 3

\* callers that have a getPractice call of their own in flight at a time
NumCallers == 2

(***************************************************************************)
(* String helpers.                                                         *)
(***************************************************************************)
RECURSIVE Repeat(_, _)
Repeat(s, n) == IF n = 0 THEN <<>> ELSE s \o Repeat(s, n - 1)

StartsWith(s, p) == Len(s) >= Len(p) /\ SubSeq(s, 1, Len(p)) = p

Contains(s, p) ==
    \E i \in 1..(Len(s) - Len(p) + 1) : SubSeq(s, i, i + Len(p) - 1) = p

HasChar(s, c) == \E i \in 1..Len(s) : s[i] = c

\* String.prototype.split("/")
RECURSIVE SplitSlash(_)
SplitSlash(s) ==
    IF ~HasChar(s, "/") THEN <<s>>
    ELSE LET i == CHOOSE k \in 1..Len(s) :
                      s[k] = "/" /\ \A j \in 1..(k - 1) : s[j] # "/"
         IN  <<SubSeq(s, 1, i - 1)>> \o SplitSlash(SubSeq(s, i + 1, Len(s)))

\* Array.prototype.join("/")
RECURSIVE JoinSlash(_)
JoinSlash(segs) ==
    IF segs = <<>> THEN <<>>
    ELSE IF Len(segs) = 1 THEN segs[1]
    ELSE segs[1] \o <<"/">> \o JoinSlash(Tail(segs))

(***************************************************************************)
(* String.prototype.toLowerCase, as validation.ts applies it.  The ASCII   *)
(* capitals fold to their small letters; U+212A KELVIN SIGN folds to "k";  *)
(* U+0130 folds to "i" followed by U+0307, two characters.                 *)
(***************************************************************************)
LowerOf ==
    [A |-> "a", B |-> "b", C |-> "c", D |-> "d", E |-> "e", F |-> "f",
     G |-> "g", H |-> "h", I |-> "i", J |-> "j", K |-> "k", L |-> "l",
     M |-> "m", N |-> "n", O |-> "o", P |-> "p", Q |-> "q", R |-> "r",
     S |-> "s", T |-> "t", U |-> "u", V |-> "v", W |-> "w", X |-> "x",
     Y |-> "y", Z |-> "z", KELVIN |-> "k"]

toLowerCaseChar(c) ==
    IF c \in DOMAIN LowerOf THEN <<LowerOf[c]>>
    ELSE IF c = "IDOT" THEN <<"i", "CDOT">>
    ELSE <<c>>

RECURSIVE toLowerCase(_)
toLowerCase(s) ==
    IF s = <<>> THEN <<>>
    ELSE toLowerCaseChar(Head(s)) \o toLowerCase(Tail(s))

\* the characters that fold to the small letter c
UpperFormsOf(c) == {u \in DOMAIN LowerOf : LowerOf[u] = c}

(***************************************************************************)
(* types.ts: the Catalog.                                                  *)
(***************************************************************************)
react == <<"r", "e", "a", "c", "t">>
nextjs == <<"n", "e", "x", "t", "j", "s">>
typescript == <<"t", "y", "p", "e", "s", "c", "r", "i", "p", "t">>
zustand == <<"z", "u", "s", "t", "a", "n", "d">>
tanstack_query ==
    <<"t", "a", "n", "s", "t", "a", "c", "k", "-", "q", "u", "e", "r", "y">>
ui == <<"u", "i">>

VALID_TOPICS == <<react, nextjs, typescript, zustand, tanstack_query, ui>>

Catalog == {VALID_TOPICS[i] : i \in 1..Len(VALID_TOPICS)}

\* Array.prototype.includes on VALID_TOPICS
IsValidTopic(s) == \E i \in 1..Len(VALID_TOPICS) : VALID_TOPICS[i] = s

BestPracticesMd ==
    <<"-", "b", "e", "s", "t", "-", "p", "r", "a", "c", "t", "i", "c", "e",
      "s", ".", "m", "d">>

\* the own properties of the TOPIC_TO_FILE object literal
TOPIC_TO_FILE(t) ==
    CASE t = react -> react \o BestPracticesMd
      [] t = nextjs -> nextjs \o BestPracticesMd
      [] t = typescript -> typescript \o BestPracticesMd
      [] t = zustand -> zustand \o BestPracticesMd
      [] t = tanstack_query -> tanstack_query \o BestPracticesMd
      [] t = ui -> ui \o BestPracticesMd

(***************************************************************************)
(* Node's path module (POSIX), as getPractice.ts calls it.                 *)
(***************************************************************************)
\* process.cwd() of the server process
Cwd == <<"/", "a", "p", "p">>

SrcData == <<"s", "r", "c", "/", "d", "a", "t", "a">>

Sep == <<"/">>

\* normalizeString(path, allowAboveRoot, "/", isPosixPathSeparator), over the
\* segments of path: "" and "." are dropped, ".." removes the segment before it
\* or, with nothing to remove, is kept only when allowAboveRoot
RECURSIVE NormalizeSegs(_, _, _)
NormalizeSegs(segs, res, allowAboveRoot) ==
    IF segs = <<>> THEN res
    ELSE LET s == Head(segs)
             rest == Tail(segs)
         IN  IF s = <<>> \/ s = <<".">>
             THEN NormalizeSegs(rest, res, allowAboveRoot)
             ELSE IF s = <<".", ".">>
             THEN IF res # <<>> /\ res[Len(res)] # <<".", ".">>
                  THEN NormalizeSegs(rest, SubSeq(res, 1, Len(res) - 1),
                                     allowAboveRoot)
                  ELSE IF allowAboveRoot
                  THEN NormalizeSegs(rest, Append(res, s), allowAboveRoot)
                  ELSE NormalizeSegs(rest, res, allowAboveRoot)
             ELSE NormalizeSegs(rest, Append(res, s), allowAboveRoot)

normalizeString(p, allowAboveRoot) ==
    JoinSlash(NormalizeSegs(SplitSlash(p), <<>>, allowAboveRoot))

\* path.normalize
PathNormalize(p) ==
    IF p = <<>> THEN <<".">>
    ELSE LET isAbsolute == p[1] = "/"
             trailingSeparator == p[Len(p)] = "/"
             n == normalizeString(p, ~isAbsolute)
         IN  IF n = <<>>
             THEN IF isAbsolute THEN <<"/">>
                  ELSE IF trailingSeparator THEN <<".", "/">> ELSE <<".">>
             ELSE (IF isAbsolute THEN <<"/">> ELSE <<>>) \o n
                  \o (IF trailingSeparator THEN <<"/">> ELSE <<>>)

\* the loop of path.resolve, from the last argument towards process.cwd()
RECURSIVE ResolveLoop(_, _, _, _)
ResolveLoop(args, i, resolvedPath, resolvedAbsolute) ==
    IF i < 0 \/ resolvedAbsolute THEN <<resolvedPath, resolvedAbsolute>>
    ELSE LET p == IF i >= 1 THEN args[i] ELSE Cwd
         IN  IF p = <<>>
             THEN ResolveLoop(args, i - 1, resolvedPath, resolvedAbsolute)
             ELSE ResolveLoop(args, i - 1, p \o <<"/">> \o resolvedPath,
                              p[1] = "/")

\* path.resolve(...args)
PathResolve(args) ==
    LET r == ResolveLoop(args, Len(args), <<>>, FALSE)
        n == normalizeString(r[1], ~r[2])
    IN  IF r[2] THEN <<"/">> \o n
        ELSE IF n # <<>> THEN n ELSE <<".">>

\* const basePath = path.resolve("src/data")
BasePath == PathResolve(<<SrcData>>)

\* the check accepting the root alone
validatePath_RejectsDescendants(basePath, targetPath) ==
    LET normalized == PathNormalize(targetPath)
        base == PathNormalize(basePath)
    IN  normalized = base

validatePath(basePath, targetPath) ==
    LET normalized == PathNormalize(targetPath)
        base == PathNormalize(basePath)
    IN  StartsWith(normalized, base \o Sep) \/ normalized = base

(***************************************************************************)
(* Messages.  A message is a sequence of fragments <<origin, text>>: "lit" *)
(* a literal of the source, "topic" a Catalog key, "input" text the caller *)
(* supplied, "path" a location of the file system as the server resolved   *)
(* it, "os" the text of an error of the runtime, "content" a stored        *)
(* document.  Template literals and + concatenate fragments.               *)
(***************************************************************************)
Lit(s) == <<"lit", s>>

None == [kind |-> "none"]

\* VALID_TOPICS.join(", ")
RECURSIVE JoinComma(_)
JoinComma(topics) ==
    IF topics = <<>> THEN <<>>
    ELSE IF Len(topics) = 1 THEN <<<<"topic", topics[1]>>>>
    ELSE <<<<"topic", topics[1]>>, Lit(", ")>> \o JoinComma(Tail(topics))

\* issues.map((issue) => issue.message).join(", ")
RECURSIVE JoinMessages(_)
JoinMessages(msgs) ==
    IF msgs = <<>> THEN <<>>
    ELSE IF Len(msgs) = 1 THEN msgs[1]
    ELSE msgs[1] \o <<Lit(", ")>> \o JoinMessages(Tail(msgs))

(***************************************************************************)
(* utils/errors.ts.                                                        *)
(***************************************************************************)
NotFoundError(resource) ==
    [cls |-> "NotFoundError", code |-> "NOT_FOUND",
     message |-> resource \o <<Lit(" not found")>>]

SecurityError(message) ==
    [cls |-> "SecurityError", code |-> "SECURITY_ERROR", message |-> message]

FileReadError(message) ==
    [cls |-> "FileReadError", code |-> "FILE_READ_ERROR", message |-> message]

\* new Error(message)
PlainError(message) == [cls |-> "Error", code |-> "", message |-> message]

(***************************************************************************)
(* utils/logger.ts: one entry per call.  debug, info and warn carry the    *)
(* data object; error carries error.message for an Error and String(x)     *)
(* for anything else, which is "[object Object]" for an object literal.    *)
(***************************************************************************)
LogData(level, message, data) ==
    [level |-> level, message |-> message, data |-> data, error |-> <<>>]

LogError(message, err) ==
    [level |-> "error", message |-> message, data |-> <<>>,
     error |-> IF err.kind = "error" THEN err.value.message
               ELSE <<Lit("[object Object]")>>]

AnError(e) == [kind |-> "error", value |-> e]

AnObject(fields) == [kind |-> "object", value |-> fields]

(***************************************************************************)
(* validation.ts: getPracticeSchema.parse, as zod runs it: the string      *)
(* checks in their order (min and max on the raw string, then the          *)
(* toLowerCase transformation), then the refinement on the lowered value;  *)
(* a failed check adds its issue and the later ones still run.             *)
(***************************************************************************)
MaxTopicLen == 50

MinTopicLen == 1

TopicEmptyMsg == <<Lit("Topic cannot be empty")>>

TopicTooLongMsg == <<Lit("Topic too long")>>

InvalidTopicMsg ==
    <<Lit("Invalid topic. Must be one of: ")>> \o JoinComma(VALID_TOPICS)

\* the refinement with a substring test in place of includes
Refine_Substring(val) ==
    \E i \in 1..Len(VALID_TOPICS) : Contains(val, VALID_TOPICS[i])

\* a refinement that lets every value through
Refine_AcceptsAll(val) == TRUE

\* .refine((val) => VALID_TOPICS.includes(val))
Refine(val) == IsValidTopic(val)

\* a schema that stops at the first failed check
RunsRefinement_AbortEarly(issues) == issues = <<>>

\* zod goes on to the refinement after min or max has failed: their issues
\* leave the value "dirty", and only a value of the wrong type aborts
RunsRefinement(issues) == TRUE

\* the schema without its .toLowerCase() step
SchemaLower_Missing(raw) == raw

\* .toLowerCase() of the schema
SchemaLower(raw) == toLowerCase(raw)

ParseOk(topic) == [kind |-> "ok", topic |-> topic, issues |-> <<>>]

ParseFail(issues) == [kind |-> "ZodError", topic |-> <<>>, issues |-> issues]

\* the schema handing on the topic as it was typed, not as it was lowered
getPracticeSchema_RawTopic(arguments) ==
    IF arguments.kind # "string" THEN ParseFail(<<<<Lit("Required")>>>>)
    ELSE LET raw == arguments.val
             issues ==
                 (IF Len(raw) < MinTopicLen THEN <<TopicEmptyMsg>> ELSE <<>>)
                 \o (IF Len(raw) > MaxTopicLen THEN <<TopicTooLongMsg>>
                     ELSE <<>>)
                 \o (IF ~Refine(SchemaLower(raw)) THEN <<InvalidTopicMsg>>
                     ELSE <<>>)
         IN  IF issues = <<>> THEN ParseOk(raw) ELSE ParseFail(issues)

getPracticeSchema(arguments) ==
    IF arguments.kind = "missing" THEN ParseFail(<<<<Lit("Required")>>>>)
    ELSE IF arguments.kind = "number"
    THEN ParseFail(<<<<Lit("Expected string, received number")>>>>)
    ELSE LET raw == arguments.val
             val == SchemaLower(raw)
             checks ==
                 (IF Len(raw) < MinTopicLen THEN <<TopicEmptyMsg>> ELSE <<>>)
                 \o (IF Len(raw) > MaxTopicLen THEN <<TopicTooLongMsg>>
                     ELSE <<>>)
             issues ==
                 checks
                 \o (IF RunsRefinement(checks) /\ ~Refine(val)
                     THEN <<InvalidTopicMsg>> ELSE <<>>)
         IN  IF issues = <<>> THEN ParseOk(val) ELSE ParseFail(issues)

(***************************************************************************)
(* resources/practices.ts.                                                 *)
(***************************************************************************)
PracticeScheme == <<"p", "r", "a", "c", "t", "i", "c", "e", ":", "/", "/">>

getResourceUri_SingleSlash(topic) ==
    <<"p", "r", "a", "c", "t", "i", "c", "e", ":", "/">> \o topic

\* `practice://${topic}`
getResourceUri(topic) == PracticeScheme \o topic

\* a line terminator, which "." of a regular expression does not match
IsLineTerminator(c) == c \in {"LF", "CR", "LS", "PS"}

\* the expression without its "^": the scheme is looked for anywhere
UriMatch_Unanchored(uri) ==
    LET n == Len(PracticeScheme)
        starts == {i \in 1..Len(uri) :
                      /\ i + n <= Len(uri)
                      /\ SubSeq(uri, i, i + n - 1) = PracticeScheme
                      /\ \A j \in (i + n)..Len(uri) :
                             ~IsLineTerminator(uri[j])}
    IN  IF starts = {} THEN None
        ELSE LET i == CHOOSE k \in starts : \A m \in starts : k <= m
             IN  [kind |-> "match", group1 |-> SubSeq(uri, i + n, Len(uri))]

UriMatch_IgnoreCase(uri) ==
    IF StartsWith(toLowerCase(uri), PracticeScheme)
       /\ Len(uri) > Len(PracticeScheme)
       /\ \A i \in (Len(PracticeScheme) + 1)..Len(uri) :
              ~IsLineTerminator(uri[i])
    THEN [kind |-> "match",
          group1 |-> SubSeq(uri, Len(PracticeScheme) + 1, Len(uri))]
    ELSE None

\* uri.match(/^practice:\/\/(.+)$/): None, or the text of group 1
UriMatch(uri) ==
    IF StartsWith(uri, PracticeScheme)
       /\ Len(uri) > Len(PracticeScheme)
       /\ \A i \in (Len(PracticeScheme) + 1)..Len(uri) :
              ~IsLineTerminator(uri[i])
    THEN [kind |-> "match",
          group1 |-> SubSeq(uri, Len(PracticeScheme) + 1, Len(uri))]
    ELSE None

isValidResourceUri_MatchOnly(uri) == UriMatch(uri) # None

isValidResourceUri(uri) ==
    LET match == UriMatch(uri)
    IN  IF match = None THEN FALSE ELSE IsValidTopic(match.group1)

\* a capture group of word characters, which takes no hyphen
extractTopicFromUri_WordCharsOnly(uri) ==
    LET match == UriMatch(uri)
    IN  IF \/ match = None
           \/ \E i \in 1..Len(match.group1) :
                  match.group1[i] \in {"-", "/", ".", ":", " "}
           \/ ~IsValidTopic(match.group1)
        THEN None
        ELSE [kind |-> "topic", topic |-> match.group1]

\* None stands for null
extractTopicFromUri(uri) ==
    LET match == UriMatch(uri)
    IN  IF match = None \/ ~IsValidTopic(match.group1) THEN None
        ELSE [kind |-> "topic", topic |-> match.group1]

\* the human-readable name of a topic
getTopicName(topic) ==
    CASE topic = react -> "React"
      [] topic = nextjs -> "Next.js"
      [] topic = typescript -> "TypeScript"
      [] topic = zustand -> "Zustand"
      [] topic = tanstack_query -> "TanStack Query"
      [] topic = ui -> "UI/UX"

getTopicDescription(topic) ==
    CASE topic = react -> "Best practices for React development"
      [] topic = nextjs -> "Best practices for Next.js development"
      [] topic = typescript -> "Best practices for TypeScript development"
      [] topic = zustand -> "Best practices for Zustand state management"
      [] topic = tanstack_query ->
             "Best practices for TanStack Query data fetching"
      [] topic = ui -> "Best practices for UI/UX design and implementation"

\* the entry of one topic in the resource list
ResourceEntry(topic) ==
    [uri |-> getResourceUri(topic),
     name |-> <<Lit(getTopicName(topic)), Lit(" Best Practices")>>,
     description |-> <<Lit(getTopicDescription(topic))>>,
     mimeType |-> "text/markdown"]

getResourceList_SkipsFirst ==
    [i \in 1..(Len(VALID_TOPICS) - 1) |-> ResourceEntry(VALID_TOPICS[i + 1])]

\* VALID_TOPICS.map(...)
getResourceList ==
    [i \in 1..Len(VALID_TOPICS) |-> ResourceEntry(VALID_TOPICS[i])]

(***************************************************************************)
(* The file system under the server.  Each backing file of the Catalog is  *)
(* readable ("ok") or fails a read with the error of its state; a path     *)
(* with a NUL is refused by fs.readFile; any other location is taken to    *)
(* exist and to hold a document of its own.                                *)
(***************************************************************************)
FileStates == {"ok", "ENOENT", "EACCES", "EISDIR"}

\* where the backing file of a Catalog topic lies
BackingPath(t) == PathResolve(<<BasePath, TOPIC_TO_FILE(t)>>)

BackingPaths == {BackingPath(t) : t \in Catalog}

TopicOfPath(p) == CHOOSE t \in Catalog : BackingPath(t) = p

\* error.message of the errors fs.readFile rejects with
FsMessage(code, p) ==
    CASE code = "ENOENT" ->
             <<<<"os", "ENOENT: no such file or directory, open '">>,
               <<"path", p>>, <<"os", "'">>>>
      [] code = "EACCES" ->
             <<<<"os", "EACCES: permission denied, open '">>,
               <<"path", p>>, <<"os", "'">>>>
      [] code = "EISDIR" ->
             <<<<"os", "EISDIR: illegal operation on a directory, read">>>>
      [] code = "EIO" -> <<<<"os", "EIO: i/o error, read">>>>
      [] code = "EMFILE" ->
             <<<<"os", "EMFILE: too many open files, open '">>,
               <<"path", p>>, <<"os", "'">>>>
      [] code = "ENOTDIR" ->
             <<<<"os", "ENOTDIR: not a directory, open '">>,
               <<"path", p>>, <<"os", "'">>>>
      [] code = "EPERM" ->
             <<<<"os", "EPERM: operation not permitted, open '">>,
               <<"path", p>>, <<"os", "'">>>>
      [] code = "ERR_INVALID_ARG_VALUE" ->
             <<<<"os", "The argument 'path' must be a string, Uint8Array, or URL without null bytes. Received '">>,
               <<"path", p>>, <<"os", "'">>>>

FsError(code, p) ==
    [kind |-> "error", cls |-> "Error", code |-> code,
     message |-> FsMessage(code, p)]

\* await fs.readFile(filePath, "utf-8") against the files fs
FsReadFile(p, fs) ==
    IF HasChar(p, "NUL") THEN FsError("ERR_INVALID_ARG_VALUE", p)
    ELSE IF p \in BackingPaths
    THEN LET t == TopicOfPath(p)
         IN  IF fs[t] = "ok"
             THEN [kind |-> "data", content |-> <<<<"content", t>>>>]
             ELSE FsError(fs[t], p)
    ELSE [kind |-> "data", content |-> <<<<"content", p>>>>]

(***************************************************************************)
(* tools/getPractice.ts.                                                   *)
(***************************************************************************)
\* the properties every object inherits from Object.prototype
ObjectPrototypeProps ==
    {<<"c", "o", "n", "s", "t", "r", "u", "c", "t", "o", "r">>,
     <<"t", "o", "S", "t", "r", "i", "n", "g">>,
     <<"_", "_", "p", "r", "o", "t", "o", "_", "_">>,
     <<"v", "a", "l", "u", "e", "O", "f">>,
     <<"h", "a", "s", "O", "w", "n", "P", "r", "o", "p", "e", "r", "t", "y">>,
     <<"i", "s", "P", "r", "o", "t", "o", "t", "y", "p", "e", "O", "f">>,
     <<"p", "r", "o", "p", "e", "r", "t", "y", "I", "s", "E", "n", "u", "m",
       "e", "r", "a", "b", "l", "e">>,
     <<"t", "o", "L", "o", "c", "a", "l", "e", "S", "t", "r", "i", "n", "g">>,
     <<"_", "_", "d", "e", "f", "i", "n", "e", "G", "e", "t", "t", "e", "r",
       "_", "_">>,
     <<"_", "_", "d", "e", "f", "i", "n", "e", "S", "e", "t", "t", "e", "r",
       "_", "_">>,
     <<"_", "_", "l", "o", "o", "k", "u", "p", "G", "e", "t", "t", "e", "r",
       "_", "_">>,
     <<"_", "_", "l", "o", "o", "k", "u", "p", "S", "e", "t", "t", "e", "r",
       "_", "_">>}

\* the lookup that takes the file name from the topic itself
TopicFileLookup_FromTopic(topic) ==
    [kind |-> "string", val |-> topic \o <<".", "m", "d">>]

\* the lookup that takes the entry of a key the topic merely begins with
TopicFileLookup_PrefixMatch(topic) ==
    IF \E k \in Catalog : StartsWith(topic, k)
    THEN [kind |-> "string",
          val |-> TOPIC_TO_FILE(CHOOSE k \in Catalog : StartsWith(topic, k))]
    ELSE [kind |-> "undefined", val |-> <<>>]

\* the lookup made with the topic in lower case
TopicFileLookup_IgnoreCase(topic) ==
    IF IsValidTopic(toLowerCase(topic))
    THEN [kind |-> "string", val |-> TOPIC_TO_FILE(toLowerCase(topic))]
    ELSE [kind |-> "undefined", val |-> <<>>]

\* TOPIC_TO_FILE[args.topic]: an own property, else an inherited one (a
\* function or an object, which is truthy), else undefined
TopicFileLookup(topic) ==
    IF IsValidTopic(topic)
    THEN [kind |-> "string", val |-> TOPIC_TO_FILE(topic)]
    ELSE IF topic \in ObjectPrototypeProps THEN [kind |-> "object", val |-> <<>>]
    ELSE [kind |-> "undefined", val |-> <<>>]

\* getPractice when validatePath has refused filePath: the log entry, made
\* by logger.error with an object literal in the place of the error, and the
\* SecurityError thrown
SecurityBranch(topic, filePath) ==
    [kind |-> "throw",
     error |-> SecurityError(<<Lit("Invalid topic path")>>),
     filePath |-> filePath,
     logs |-> <<LogError("Path traversal attempt detected",
                         AnObject(<<<<"input", topic>>,
                                    <<"path", filePath>>>>))>>]

\* getPractice up to its await: it throws, or it awaits the read of filePath
getPracticeStart(topic) ==
    LET basePath == BasePath
        fileName == TopicFileLookup(topic)
    IN  IF fileName.kind = "undefined"
        THEN [kind |-> "throw",
              error |-> NotFoundError(<<Lit("Best practice for topic: "),
                                        <<"input", topic>>>>),
              filePath |-> <<>>,
              logs |-> <<LogData("warn", "Unknown topic requested",
                                 <<<<"input", topic>>>>)>>]
        ELSE IF fileName.kind # "string"
        THEN \* path.resolve throws ERR_INVALID_ARG_TYPE
             [kind |-> "throw",
              error |-> [cls |-> "TypeError", code |-> "ERR_INVALID_ARG_TYPE",
                         message |-> <<<<"os", "The \"paths[1]\" argument must be of type string.">>>>],
              filePath |-> <<>>,
              logs |-> <<>>]
        ELSE LET filePath == PathResolve(<<basePath, fileName.val>>)
             IN  IF ~validatePath(basePath, filePath)
                 THEN SecurityBranch(topic, filePath)
                 ELSE [kind |-> "await",
                       error |-> None,
                       filePath |-> filePath,
                       logs |-> <<LogData("debug", "Reading practice file",
                                      <<<<"input", topic>>,
                                        <<"path", fileName.val>>>>)>>]

\* an Error that has no code property, and a thrown value that is no Error
ErrorWithoutCode ==
    [kind |-> "error", cls |-> "Error", code |-> "",
     message |-> <<<<"os", "read failed">>>>]

NonErrorValue == [kind |-> "value"]

IsENOENT_AnyCode(outcome) == outcome.kind = "error" /\ outcome.code # ""

\* error instanceof Error && "code" in error && error.code === "ENOENT"
IsENOENT(outcome) ==
    outcome.kind = "error" /\ outcome.code # "" /\ outcome.code = "ENOENT"

\* getPractice from the settling of the read on: it returns the content, or
\* the catch block classifies what the read threw
getPracticeSettle(topic, filePath, outcome) ==
    IF outcome.kind = "data"
    THEN [kind |-> "return", content |-> outcome.content, error |-> None,
          logs |-> <<LogData("info", "Successfully read practice file",
                             <<<<"input", topic>>>>)>>]
    ELSE IF IsENOENT(outcome)
    THEN [kind |-> "throw", content |-> <<>>,
          error |-> NotFoundError(<<Lit("Best practice file for topic: "),
                                    <<"input", topic>>>>),
          logs |-> <<LogData("warn", "Practice file not found",
                             <<<<"input", topic>>, <<"path", filePath>>>>)>>]
    ELSE [kind |-> "throw", content |-> <<>>,
          error |-> FileReadError(<<Lit("Failed to read best practice file: ")>>
                                  \o IF outcome.kind = "error"
                                     THEN outcome.message
                                     ELSE <<Lit("Unknown error")>>),
          logs |-> <<LogError("Failed to read practice file",
                              IF outcome.kind = "error" THEN AnError(outcome)
                              ELSE AnObject(<<>>))>>]

(***************************************************************************)
(* server.ts: the handler of CallToolRequestSchema.                        *)
(***************************************************************************)
ToolName == <<"g", "e", "t", "_", "b", "e", "s", "t", "_", "p", "r", "a", "c", "t",
      "i", "c", "e">>

\* the comparison of names made without regard to letter case
IsKnownTool_IgnoreCase(name) == toLowerCase(name) = ToolName

\* request.params.name !== "get_best_practice", negated
IsKnownTool(name) == name = ToolName

ToolResult(isError, type, text) ==
    [kind |-> "result", isError |-> isError,
     content |-> <<[type |-> type, text |-> text]>>]

\* the catch block reporting error.issues[0].message alone
ToolCatch_FirstIssueOnly(error) ==
    IF error.cls = "ZodError"
    THEN [resp |-> ToolResult(TRUE, "text",
                              <<Lit("Invalid input: ")>> \o error.issues[1]),
          logs |-> <<LogData("warn", "Validation error", error.issues[1])>>]
    ELSE IF error.cls = "NotFoundError"
    THEN [resp |-> ToolResult(TRUE, "text",
                       error.message \o <<Lit(". Available topics: ")>>
                       \o JoinComma(VALID_TOPICS)),
          logs |-> <<LogData("info", "Resource not found", error.message)>>]
    ELSE [resp |-> ToolResult(TRUE, "text",
                              <<Lit("An unexpected error occurred")>>),
          logs |-> <<LogError("Unexpected error in tool handler",
                              AnError(error))>>]

\* the catch block of the handler: the response and the log entry per class
ToolCatch(error) ==
    IF error.cls = "ZodError"
    THEN LET errorMessages == JoinMessages(error.issues)
         IN  [resp |-> ToolResult(TRUE, "text",
                                  <<Lit("Invalid input: ")>> \o errorMessages),
              logs |-> <<LogData("warn", "Validation error", errorMessages)>>]
    ELSE IF error.cls = "NotFoundError"
    THEN [resp |-> ToolResult(TRUE, "text",
                       error.message \o <<Lit(". Available topics: ")>>
                       \o JoinComma(VALID_TOPICS)),
          logs |-> <<LogData("info", "Resource not found", error.message)>>]
    ELSE IF error.cls = "SecurityError"
    THEN [resp |-> ToolResult(TRUE, "text", <<Lit("Access denied")>>),
          logs |-> <<LogError("Security violation", AnError(error))>>]
    ELSE IF error.cls = "FileReadError"
    THEN [resp |-> ToolResult(TRUE, "text",
              <<Lit("An error occurred while retrieving the best practice")>>),
          logs |-> <<LogError("File read error", AnError(error))>>]
    ELSE [resp |-> ToolResult(TRUE, "text",
                              <<Lit("An unexpected error occurred")>>),
          logs |-> <<LogError("Unexpected error in tool handler",
                              AnError(error))>>]

\* the answer with the marker of the error answers
ToolSuccess_PlainText(content) == ToolResult(FALSE, "text", content)

ToolSuccess(content) == ToolResult(FALSE, "text/markdown", content)

(***************************************************************************)
(* server.ts: the handler of ReadResourceRequestSchema.  It answers with   *)
(* contents, or it throws an Error.                                        *)
(***************************************************************************)
Thrown(error) == [kind |-> "throw", error |-> error]

ResourceSuccess_UriAsText(uri, content) ==
    [kind |-> "result",
     contents |-> <<[uri |-> uri, mimeType |-> "text/markdown",
                     text |-> <<<<"input", uri>>>>]>>]

ResourceSuccess(uri, content) ==
    [kind |-> "result",
     contents |-> <<[uri |-> uri, mimeType |-> "text/markdown",
                     text |-> content]>>]

\* the catch block of the handler
ResourceCatch(error) ==
    [resp |-> Thrown(PlainError(<<Lit("Failed to read resource: ")>>
                                \o error.message)),
     logs |-> <<LogError("Failed to read resource", AnError(error))>>]

(***************************************************************************)
(* getPractice called by itself, as the tests of the repository call it.   *)
(***************************************************************************)
Returned(content) == [kind |-> "return", content |-> content]

(***************************************************************************)
(* The requests the callers send.                                          *)
(***************************************************************************)
CaseForms(c) == {c} \cup UpperFormsOf(c)

\* every string that differs from k at most in the case of its letters
RECURSIVE CaseVariants(_)
CaseVariants(k) ==
    IF k = <<>> THEN {<<>>}
    ELSE {<<h>> \o t : h \in CaseForms(Head(k)), t \in CaseVariants(Tail(k))}

AsciiUpper(c) ==
    IF UpperFormsOf(c) \ {"KELVIN"} = {} THEN c
    ELSE CHOOSE u \in UpperFormsOf(c) : u # "KELVIN"

AllUpper(k) == [i \in 1..Len(k) |-> AsciiUpper(k[i])]

MixedCase(k) == [i \in 1..Len(k) |-> IF i % 2 = 1 THEN AsciiUpper(k[i]) ELSE k[i]]

KelvinForm(k) == [i \in 1..Len(k) |-> IF k[i] = "k" THEN "KELVIN" ELSE k[i]]

VariantTopics ==
    UNION {IF Len(k) <= MaxVariantLen THEN CaseVariants(k)
           ELSE {AllUpper(k), MixedCase(k), KelvinForm(k), KelvinForm(AllUpper(k))}
           : k \in Catalog}

OtherTopics ==
    {<<>>,
     <<" ", "r", "e", "a", "c", "t">>,
     <<"r", "e", "a", "c", "t", " ">>,
     <<"r", "e", "a", "c">>,
     <<"e", "a", "c", "t">>,
     <<"r", "e", "a", "c", "t", "x">>,
     <<"u", "i", "u", "i">>,
     <<"i", "n", "v", "a", "l", "i", "d">>,
     <<"n", "o", "n", "e", "x", "i", "s", "t", "e", "n", "t">>,
     <<"b", "i", "o", "m", "e">>,
     <<"u", "IDOT">>,
     <<"c", "o", "n", "s", "t", "r", "u", "c", "t", "o", "r">>,
     <<"t", "o", "S", "t", "r", "i", "n", "g">>,
     <<"_", "_", "p", "r", "o", "t", "o", "_", "_">>,
     <<"r", "e", "a", "c", "t", "-", "b", "e", "s", "t", "-", "p", "r", "a",
       "c", "t", "i", "c", "e", "s", ".", "m", "d">>,
     <<"r", "e", "a", "c", "t", ".", "m", "d">>,
     <<"r", "e", "a", "c", "t", ";", " ", "r", "m", " ", "-", "r", "f", " ",
       "/">>}
    \cup {Repeat(<<"a">>, MaxTopicLen), Repeat(<<"a">>, MaxTopicLen + 1),
          Repeat(<<"IDOT">>, MaxTopicLen),
          react \o Repeat(<<" ">>, MaxTopicLen + 1 - Len(react))}

\* topics with "..", a leading "/", a drive letter or a NUL
PayloadTopics ==
    {<<".", ".">>,
     <<"/">>,
     <<"NUL">>,
     <<"C", ":">>,
     <<".", ".", "/", ".", ".", "/", "p", "a", "c", "k", "a", "g", "e", ".",
       "j", "s", "o", "n">>,
     <<".", ".", "/", ".", ".", "/", ".", ".", "/", "e", "t", "c", "/", "p",
       "a", "s", "s", "w", "d">>,
     <<".", ".", "\\", ".", ".", "\\", "w", "i", "n", "d", "o", "w", "s",
       "\\", "s", "y", "s", "t", "e", "m", "3", "2">>,
     <<"r", "e", "a", "c", "t", "/", ".", ".", "/", ".", ".", "/", ".", ".",
       "/", "e", "t", "c", "/", "p", "a", "s", "s", "w", "d">>,
     <<".", "/", ".", ".", "/", ".", ".", "/", "p", "a", "c", "k", "a", "g",
       "e", ".", "j", "s", "o", "n">>,
     <<"/", "e", "t", "c", "/", "p", "a", "s", "s", "w", "d">>,
     <<"C", ":", "\\", "W", "i", "n", "d", "o", "w", "s", "\\", "S", "y",
       "s", "t", "e", "m", "3", "2", "\\", "c", "o", "n", "f", "i", "g",
       "\\", "S", "A", "M">>,
     <<"/", "r", "o", "o", "t", "/", ".", "s", "s", "h", "/", "i", "d", "_",
       "r", "s", "a">>,
     <<"r", "e", "a", "c", "t", "NUL", ".", "m", "d">>,
     <<"/", "a", "p", "p", "/", "s", "r", "c", "/", "d", "a", "t", "a", "/",
       "r", "e", "a", "c", "t", "-", "b", "e", "s", "t", "-", "p", "r", "a",
       "c", "t", "i", "c", "e", "s", ".", "m", "d">>,
     <<".", ".", "/", "d", "a", "t", "a", "/", "r", "e", "a", "c", "t", "-",
       "b", "e", "s", "t", "-", "p", "r", "a", "c", "t", "i", "c", "e", "s",
       ".", "m", "d">>,
     <<"/", "a", "p", "p", "/", "s", "r", "c", "/", "d", "a", "t", "a", "2",
       "/", "x">>,
     <<".", ".", "/", "r", "e", "a", "c", "t">>,
     <<"r", "e", "a", "c", "t", "/", ".", ".">>,
     <<"r", "e", "a", "c", "t", "/", ".", ".", "/", "r", "e", "a", "c", "t">>,
     <<"/", "r", "e", "a", "c", "t">>,
     <<"C", ":", "r", "e", "a", "c", "t">>,
     <<"C", ":", "\\", "r", "e", "a", "c", "t">>,
     <<"c", ":", "/", "r", "e", "a", "c", "t">>,
     <<"r", "e", "a", "c", "t", "NUL">>,
     <<"NUL", "r", "e", "a", "c", "t">>,
     <<"r", "e", "a", "c", "t", "NUL", "r", "e", "a", "c", "t">>,
     <<"r", "e", "a", "c", "t", ".", ".">>,
     <<".", ".", "/", "e", "t", "c", "/", "p", "a", "s", "s", "w", "d">>,
     <<"e", "t", "c", "/", "p", "a", "s", "s", "w", "d", "/", ".", ".">>,
     <<"e", "t", "c", "/", "p", "a", "s", "s", "w", "d", "/", ".", ".", "/",
       "e", "t", "c", "/", "p", "a", "s", "s", "w", "d">>,
     <<"C", ":", "e", "t", "c", "/", "p", "a", "s", "s", "w", "d">>,
     <<"C", ":", "\\", "e", "t", "c", "/", "p", "a", "s", "s", "w", "d">>,
     <<"c", ":", "/", "e", "t", "c", "/", "p", "a", "s", "s", "w", "d">>,
     <<"e", "t", "c", "/", "p", "a", "s", "s", "w", "d", "NUL">>,
     <<"NUL", "e", "t", "c", "/", "p", "a", "s", "s", "w", "d">>,
     <<"e", "t", "c", "/", "p", "a", "s", "s", "w", "d", "NUL", "e", "t",
       "c", "/", "p", "a", "s", "s", "w", "d">>,
     <<"e", "t", "c", "/", "p", "a", "s", "s", "w", "d", ".", ".">>,
     <<".", ".", "/", "r", "e", "a", "c", "t", "-", "b", "e", "s", "t", "-",
       "p", "r", "a", "c", "t", "i", "c", "e", "s", ".", "m", "d">>,
     <<"r", "e", "a", "c", "t", "-", "b", "e", "s", "t", "-", "p", "r", "a",
       "c", "t", "i", "c", "e", "s", ".", "m", "d", "/", ".", ".">>,
     <<"r", "e", "a", "c", "t", "-", "b", "e", "s", "t", "-", "p", "r", "a",
       "c", "t", "i", "c", "e", "s", ".", "m", "d", "/", ".", ".", "/", "r",
       "e", "a", "c", "t", "-", "b", "e", "s", "t", "-", "p", "r", "a", "c",
       "t", "i", "c", "e", "s", ".", "m", "d">>,
     <<"/", "r", "e", "a", "c", "t", "-", "b", "e", "s", "t", "-", "p", "r",
       "a", "c", "t", "i", "c", "e", "s", ".", "m", "d">>,
     <<"C", ":", "r", "e", "a", "c", "t", "-", "b", "e", "s", "t", "-", "p",
       "r", "a", "c", "t", "i", "c", "e", "s", ".", "m", "d">>,
     <<"C", ":", "\\", "r", "e", "a", "c", "t", "-", "b", "e", "s", "t", "-",
       "p", "r", "a", "c", "t", "i", "c", "e", "s", ".", "m", "d">>,
     <<"c", ":", "/", "r", "e", "a", "c", "t", "-", "b", "e", "s", "t", "-",
       "p", "r", "a", "c", "t", "i", "c", "e", "s", ".", "m", "d">>,
     <<"r", "e", "a", "c", "t", "-", "b", "e", "s", "t", "-", "p", "r", "a",
       "c", "t", "i", "c", "e", "s", ".", "m", "d", "NUL">>,
     <<"NUL", "r", "e", "a", "c", "t", "-", "b", "e", "s", "t", "-", "p",
       "r", "a", "c", "t", "i", "c", "e", "s", ".", "m", "d">>,
     <<"r", "e", "a", "c", "t", "-", "b", "e", "s", "t", "-", "p", "r", "a",
       "c", "t", "i", "c", "e", "s", ".", "m", "d", "NUL", "r", "e", "a",
       "c", "t", "-", "b", "e", "s", "t", "-", "p", "r", "a", "c", "t", "i",
       "c", "e", "s", ".", "m", "d">>,
     <<"r", "e", "a", "c", "t", "-", "b", "e", "s", "t", "-", "p", "r", "a",
       "c", "t", "i", "c", "e", "s", ".", "m", "d", ".", ".">>}

Topics == Catalog \cup VariantTopics \cup OtherTopics \cup PayloadTopics

StringArg(s) == [kind |-> "string", val |-> s]

ToolArguments ==
    {StringArg(s) : s \in Topics}
    \cup {[kind |-> "missing", val |-> <<>>], [kind |-> "number", val |-> <<>>]}

OtherToolNames ==
    {<<"o", "t", "h", "e", "r", "_", "t", "o", "o", "l">>,
     <<"G", "E", "T", "_", "B", "E", "S", "T", "_", "P", "R", "A", "C", "T",
       "I", "C", "E">>,
     <<>>,
     <<"g", "e", "t", "_", "b", "e", "s", "t", "_", "p", "r", "a", "c", "t",
       "i", "c", "e", " ">>,
     <<"/", "a", "p", "p", "/", "s", "r", "c", "/", "d", "a", "t", "a">>}

OtherToolArguments ==
    {StringArg(react), StringArg(<<".", ".">>), [kind |-> "missing", val |-> <<>>]}

UriTopics ==
    Catalog \cup {AllUpper(k) : k \in Catalog} \cup OtherTopics
    \cup {p \in PayloadTopics : Len(p) <= 4}

Uris ==
    {getResourceUri(t) : t \in UriTopics}
    \cup {<<>>,
          <<"p", "r", "a", "c", "t", "i", "c", "e", ":", "/", "/">>,
          <<"p", "r", "a", "c", "t", "i", "c", "e", ":", "/", "/", "r", "e", "a",
            "c", "t", "/", "e", "x", "t", "r", "a">>,
          <<"P", "R", "A", "C", "T", "I", "C", "E", ":", "/", "/", "r", "e", "a",
            "c", "t">>,
          <<"P", "r", "a", "c", "t", "i", "c", "e", ":", "/", "/", "r", "e", "a",
            "c", "t">>,
          <<"h", "t", "t", "p", ":", "/", "/", "r", "e", "a", "c", "t">>,
          <<"r", "e", "a", "c", "t">>,
          <<"p", "r", "a", "c", "t", "i", "c", "e", ":", "/", "r", "e", "a", "c",
            "t">>,
          <<"p", "r", "a", "c", "t", "i", "c", "e", ":", "r", "e", "a", "c", "t">>,
          <<" ", "p", "r", "a", "c", "t", "i", "c", "e", ":", "/", "/", "r", "e",
            "a", "c", "t">>,
          <<"p", "r", "a", "c", "t", "i", "c", "e", ":", "/", "/", "r", "e", "a",
            "c", "t", " ">>,
          <<"p", "r", "a", "c", "t", "i", "c", "e", ":", "/", "/", "r", "e", "a",
            "c", "t", "LF">>,
          <<"p", "r", "a", "c", "t", "i", "c", "e", ":", "/", "/", "LF", "r", "e",
            "a", "c", "t">>,
          <<"x", "p", "r", "a", "c", "t", "i", "c", "e", ":", "/", "/", "r", "e",
            "a", "c", "t">>,
          <<"p", "r", "a", "c", "t", "i", "c", "e", ":", "/", "/", "p", "r", "a",
            "c", "t", "i", "c", "e", ":", "/", "/", "r", "e", "a", "c", "t">>,
          <<"p", "r", "a", "c", "t", "i", "c", "e", ":", "/", "/", "r", "e", "a",
            "c", "t", "-", "b", "e", "s", "t", "-", "p", "r", "a", "c", "t", "i",
            "c", "e", "s", ".", "m", "d">>,
          <<"p", "r", "a", "c", "t", "i", "c", "e", ":", "/", "/", "/", "a", "p",
            "p", "/", "s", "r", "c", "/", "d", "a", "t", "a", "/", "r", "e", "a",
            "c", "t", "-", "b", "e", "s", "t", "-", "p", "r", "a", "c", "t", "i",
            "c", "e", "s", ".", "m", "d">>}

(***************************************************************************)
(* The server as a state machine.  One request is in flight at a time; the *)
(* await of fs.readFile is the one point where a handler yields.           *)
(*   fsState  the state of each backing file (the environment's)           *)
(*   pc       "idle", "reading" (a handler awaits its read), "done" (the   *)
(*            handler has ended, its outcome is in resp)                   *)
(*   req      the request being served                                     *)
(*   parsed   what getPracticeSchema.parse made of a tool call's arguments *)
(*   pending  the read a handler awaits                                    *)
(*   resp     how the handler ended                                        *)
(*   reads    the locations this request has asked fs.readFile for         *)
(*   logs     the log entries of this request                              *)
(*   ref      the exchange on a Catalog key that came before the requests  *)
(*            on that topic now served, kept for comparison while the      *)
(*            files stay as they are; or the resource list given before    *)
(*            the one now asked for, whatever happens to the files         *)
(***************************************************************************)
Faulty(fs) == {t \in Catalog : fs[t] # "ok"}

Init ==
    /\ fsState = [t \in Catalog |-> "ok"]
    /\ pc = "idle"
    /\ req = None
    /\ parsed = None
    /\ pending = None
    /\ resp = None
    /\ reads = <<>>
    /\ logs = <<>>
    /\ ref = None
    /\ guardIn = None
    /\ guardOut = None
    /\ uriIn = None
    /\ uriOut = None
    /\ loadIn = None
    /\ loadOut = None
    /\ calls = <<>>

\* a handler has reached getPractice(topic): it ends there, or awaits the read
EnterGetPractice(topic, logs0, catch(_)) ==
    LET g == getPracticeStart(topic)
    IN  IF g.kind = "throw"
        THEN LET c == catch(g.error)
             IN  /\ pc' = "done"
                 /\ resp' = c.resp
                 /\ logs' = logs0 \o g.logs \o c.logs
                 /\ pending' = None
                 /\ reads' = <<>>
        ELSE /\ pc' = "reading"
             /\ resp' = None
             /\ logs' = logs0 \o g.logs
             /\ pending' = [kind |-> "read", topic |-> topic,
                            filePath |-> g.filePath]
             /\ reads' = <<g.filePath>>

DirectCatch(error) == [resp |-> Thrown(error), logs |-> <<>>]

\* the exchange kept for comparison is dropped when a request on another
\* topic comes in: an exchange is compared with the ones right after it
KeepRef(topicText) ==
    ref' = IF /\ ref # None
              /\ ref.surface # "list"
              /\ toLowerCase(topicText) = ref.topic
           THEN ref
           ELSE None

\* server.setRequestHandler(CallToolRequestSchema, ...)
CallTool(name, arguments) ==
    /\ pc = "idle"
    /\ req' = [kind |-> "tool", name |-> name, arguments |-> arguments]
    /\ LET logs0 == <<LogData("debug", "CallTool request received",
                              <<<<"input", name>>>>)>>
       IN  IF ~IsKnownTool(name)
           THEN /\ pc' = "done"
                /\ parsed' = None
                /\ resp' = ToolResult(TRUE, "text",
                               <<Lit("Unknown tool: "), <<"input", name>>>>)
                /\ logs' = logs0 \o <<LogData("warn", "Unknown tool requested",
                                              <<<<"input", name>>>>)>>
                /\ pending' = None
                /\ reads' = <<>>
           ELSE LET args == getPracticeSchema(arguments)
                IN  /\ parsed' = args
                    /\ IF args.kind = "ZodError"
                       THEN LET c == ToolCatch([cls |-> "ZodError",
                                                issues |-> args.issues])
                            IN  /\ pc' = "done"
                                /\ resp' = c.resp
                                /\ logs' = logs0 \o c.logs
                                /\ pending' = None
                                /\ reads' = <<>>
                       ELSE EnterGetPractice(args.topic, logs0, ToolCatch)
    /\ KeepRef(IF arguments.kind = "string" THEN arguments.val ELSE <<>>)
    /\ UNCHANGED <<fsState, guardVars, uriVars, loadVars, calls>>

\* server.setRequestHandler(ReadResourceRequestSchema, ...)
ReadResource(uri) ==
    /\ pc = "idle"
    /\ req' = [kind |-> "resource", uri |-> uri]
    /\ parsed' = None
    /\ LET logs0 == <<LogData("debug", "ReadResource request received",
                              <<<<"input", uri>>>>)>>
       IN  IF ~isValidResourceUri(uri)
           THEN /\ pc' = "done"
                /\ resp' = Thrown(PlainError(<<Lit("Invalid resource URI: "),
                                               <<"input", uri>>>>))
                /\ logs' = logs0 \o <<LogData("warn", "Invalid resource URI",
                                              <<<<"input", uri>>>>)>>
                /\ pending' = None
                /\ reads' = <<>>
           ELSE LET topic == extractTopicFromUri(uri)
                IN  IF topic = None
                    THEN LET c == ResourceCatch(PlainError(
                                   <<Lit("Could not extract topic from URI: "),
                                     <<"input", uri>>>>))
                         IN  /\ pc' = "done"
                             /\ resp' = c.resp
                             /\ logs' = logs0 \o c.logs
                             /\ pending' = None
                             /\ reads' = <<>>
                    ELSE EnterGetPractice(topic.topic, logs0, ResourceCatch)
    /\ KeepRef(IF UriMatch(uri) = None THEN <<>> ELSE UriMatch(uri).group1)
    /\ UNCHANGED <<fsState, guardVars, uriVars, loadVars, calls>>

\* getPractice({ topic }) called by itself
CallGetPractice(topic) ==
    /\ pc = "idle"
    /\ req' = [kind |-> "direct", topic |-> topic]
    /\ parsed' = None
    /\ EnterGetPractice(topic, <<>>, DirectCatch)
    /\ KeepRef(topic)
    /\ UNCHANGED <<fsState, guardVars, uriVars, loadVars, calls>>

\* server.setRequestHandler(ListResourcesRequestSchema, ...)
ListResources ==
    /\ pc = "idle"
    /\ req' = [kind |-> "list"]
    /\ parsed' = None
    /\ pc' = "done"
    /\ resp' = [kind |-> "result", resources |-> getResourceList]
    /\ logs' = <<LogData("debug", "ListResources request received", <<>>)>>
    /\ pending' = None
    /\ reads' = <<>>
    /\ ref' = IF ref # None /\ ref.surface = "list" THEN ref ELSE None
    /\ UNCHANGED <<fsState, guardVars, uriVars, loadVars, calls>>

\* a catch block that asks for the file once more when the read has failed
ReadsAfterSettle_RetryOnce(filePath, outcome) ==
    IF outcome.kind = "data" THEN <<>> ELSE <<filePath>>

\* the reads getPractice asks for once its read has settled: none, it
\* returns the content or its catch block throws at once
ReadsAfterSettle(filePath, outcome) == <<>>

\* a read that consumes the file it reads
FilesAfterRead_Consumed(fs, filePath) ==
    IF filePath \in BackingPaths
    THEN [fs EXCEPT ![TopicOfPath(filePath)] = "ENOENT"]
    ELSE fs

\* the files once fs.readFile has settled: as they were, a read writes nothing
FilesAfterRead(fs, filePath) == fs

\* the awaited fs.readFile settles and the handler runs to its end
ReadSettles ==
    /\ pc = "reading"
    /\ LET outcome == FsReadFile(pending.filePath, fsState)
           g == getPracticeSettle(pending.topic, pending.filePath, outcome)
           c == IF g.kind = "return"
                THEN [resp |-> CASE req.kind = "tool" -> ToolSuccess(g.content)
                                 [] req.kind = "resource" ->
                                        ResourceSuccess(req.uri, g.content)
                                 [] req.kind = "direct" -> Returned(g.content),
                      logs |-> <<>>]
                ELSE CASE req.kind = "tool" -> ToolCatch(g.error)
                       [] req.kind = "resource" -> ResourceCatch(g.error)
                       [] req.kind = "direct" -> DirectCatch(g.error)
       IN  /\ resp' = c.resp
           /\ logs' = logs \o g.logs \o c.logs
           /\ reads' = reads \o ReadsAfterSettle(pending.filePath, outcome)
           /\ fsState' = FilesAfterRead(fsState, pending.filePath)
    /\ pc' = "done"
    /\ pending' = None
    /\ UNCHANGED <<req, parsed, ref, guardVars, uriVars, loadVars, calls>>

\* the request names a Catalog key in its plain form
IsPlainRequest(r) ==
    \/ r.kind = "tool" /\ r.name = ToolName /\ r.arguments.kind = "string"
       /\ r.arguments.val \in Catalog
    \/ r.kind = "resource" /\ \E t \in Catalog : r.uri = getResourceUri(t)
    \/ r.kind = "direct" /\ r.topic \in Catalog
    \/ r.kind = "list"

\* the key a plain request names
PlainTopic(r) ==
    CASE r.kind = "tool" -> r.arguments.val
      [] r.kind = "resource" -> CHOOSE t \in Catalog : r.uri = getResourceUri(t)
      [] r.kind = "direct" -> r.topic
      [] r.kind = "list" -> <<>>

Forget ==
    /\ pc' = "idle"
    /\ req' = None
    /\ parsed' = None
    /\ resp' = None
    /\ reads' = <<>>
    /\ logs' = <<>>
    /\ UNCHANGED <<fsState, pending, guardVars, uriVars, loadVars, calls>>

\* the outcome has left the server
Deliver ==
    /\ pc = "done"
    /\ Forget
    /\ UNCHANGED ref

\* the same, the exchange being kept for later comparison
DeliverAndKeep ==
    /\ pc = "done"
    /\ IsPlainRequest(req)
    /\ ref' = [kind |-> "ref", surface |-> req.kind, topic |-> PlainTopic(req),
               parsed |-> parsed, resp |-> resp]
    /\ Forget

\* the environment replaces, removes or locks a backing file
StorageChanges(t, s) ==
    /\ pc = "idle"
    /\ s # fsState[t]
    /\ Cardinality(Faulty([fsState EXCEPT ![t] = s])) <= MaxFaulty
    /\ fsState' = [fsState EXCEPT ![t] = s]
    /\ ref' = IF ref # None /\ ref.surface = "list" THEN ref ELSE None
    /\ UNCHANGED <<pc, req, parsed, pending, resp, reads, logs, guardVars, uriVars, loadVars, calls>>

Next ==
    \/ \E a \in ToolArguments : CallTool(ToolName, a)
    \/ \E n \in OtherToolNames, a \in OtherToolArguments : CallTool(n, a)
    \/ \E u \in Uris : ReadResource(u)
    \/ \E t \in Topics : CallGetPractice(t)
    \/ ListResources
    \/ ReadSettles
    \/ Deliver
    \/ DeliverAndKeep
    \/ \E t \in Catalog, s \in FileStates : StorageChanges(t, s)

Spec == Init /\ [][Next]_vars

(***************************************************************************)
(* The path guard by itself: getPractice's resolution of a content         *)
(* reference against the storage root (line 117) and validatePath, applied *)
(* to content references other than the Catalog's, and to locations given *)
(* as they are.                                                            *)
(*   guardIn   the content reference, then the candidate location          *)
(*   guardOut  validatePath's verdict on the candidate, then what          *)
(*             getPractice and the handlers make of a refusal              *)
(***************************************************************************)
RefSegments ==
    {<<".", ".">>, <<".">>, <<"x">>, <<"d", "a", "t", "a", "2">>,
     <<"x", "NUL">>, <<>>}

\* the content references of 1 to MaxRefSegs segments
ContentRefs ==
    {JoinSlash(segs) :
         segs \in UNION {[1..n -> RefSegments] : n \in 1..MaxRefSegs}}
    \cup {TOPIC_TO_FILE(t) : t \in Catalog}
    \cup {<<"/", "a", "p", "p", "/", "s", "r", "c", "/", "d", "a", "t", "a", "/",
            "x">>,
          <<"/", "a", "p", "p", "/", "s", "r", "c", "/", "d", "a", "t", "a">>,
          <<"/", "a", "p", "p", "/", "s", "r", "c", "/", "d", "a", "t", "a", "/">>,
          <<"/", "a", "p", "p", "/", "s", "r", "c", "/", "d", "a", "t", "a", "2",
            "/", "x">>,
          <<"/", "a", "p", "p", "/", "s", "r", "c", "/", "d", "a", "t", "a", "x">>,
          <<"/", "e", "t", "c", "/", "p", "a", "s", "s", "w", "d">>,
          <<"/", "a", "p", "p", "/", "s", "r", "c">>,
          <<"/">>,
          <<"r", "e", "a", "c", "t", "NUL", ".", "m", "d">>,
          <<"/", "a", "p", "p", "/", "s", "r", "c", "/", "d", "a", "t", "a", "/",
            "r", "e", "a", "c", "t", "NUL", ".", "m", "d">>,
          <<"s", "u", "b", "/", ".", ".", "/", ".", ".", "/", "d", "a", "t", "a",
            "/", "x">>,
          <<".", ".", "/", ".", ".", "/", ".", ".", "/", ".", ".", "/", ".", ".",
            "/", ".", ".", "/", "e", "t", "c", "/", "p", "a", "s", "s", "w", "d">>}

\* locations handed to validatePath without path.resolve before it
RawCandidates ==
    {BasePath \o r : r \in {<<>>,
                         <<"/">>,
                         <<"/", "x">>,
                         <<"2", "/", "x">>,
                         <<"2">>,
                         <<"x">>,
                         <<"/", ".", ".", "/", "d", "a", "t", "a", "2", "/", "x">>,
                         <<"/", ".", ".", "/", "d", "a", "t", "a", "/", "x">>,
                         <<"/", ".", ".">>,
                         <<"/", ".", "/", "x">>,
                         <<"/", "/", "x">>,
                         <<"/", "x", "NUL">>,
                         <<"/", "x", "/", ".", ".", "/", ".", ".">>,
                         <<"/", "x", "/">>,
                         <<"/", ".", ".", "/", ".", ".", "/", "s", "r", "c", "/", "d", "a", "t",
                           "a", "/", "x">>}}

InitGuard ==
    /\ fsState = [t \in Catalog |-> "ok"]
    /\ pc = "idle"
    /\ req = None
    /\ parsed = None
    /\ pending = None
    /\ resp = None
    /\ reads = <<>>
    /\ logs = <<>>
    /\ ref = None
    /\ guardOut = None
    /\ uriIn = None
    /\ uriOut = None
    /\ loadIn = None
    /\ loadOut = None
    /\ calls = <<>>
    /\ \/ \E r \in ContentRefs :
              guardIn = [kind |-> "ref", contentRef |-> r, candidate |-> <<>>]
       \/ \E c \in RawCandidates :
              guardIn = [kind |-> "candidate", contentRef |-> <<>>,
                         candidate |-> c]

\* const filePath = path.resolve(basePath, fileName)
GuardResolve ==
    /\ guardIn.kind = "ref"
    /\ guardIn' = [guardIn EXCEPT !.kind = "candidate",
                       !.candidate = PathResolve(<<BasePath, guardIn.contentRef>>)]
    /\ UNCHANGED <<fsState, serverVars, guardOut, uriVars, loadVars, calls>>

\* validatePath(basePath, filePath)
GuardValidate ==
    /\ guardIn.kind = "candidate"
    /\ guardOut = None
    /\ guardOut' = [kind |-> "verdict",
                    accepted |-> validatePath(BasePath, guardIn.candidate)]
    /\ UNCHANGED <<fsState, serverVars, guardIn, uriVars, loadVars, calls>>

\* the topic whose file name the content reference stands for
GuardTopic == react

\* validatePath has returned false: getPractice logs and throws, and the
\* handler of either surface catches what it threw
GuardDeny ==
    /\ guardOut.kind = "verdict"
    /\ ~guardOut.accepted
    /\ LET g == SecurityBranch(GuardTopic, guardIn.candidate)
           tool == ToolCatch(g.error)
           resource == ResourceCatch(g.error)
       IN  guardOut' = [kind |-> "denied", accepted |-> FALSE,
                        error |-> g.error,
                        logs |-> g.logs,
                        toolResp |-> tool.resp,
                        toolLogs |-> tool.logs,
                        resourceResp |-> resource.resp]
    /\ UNCHANGED <<fsState, serverVars, guardIn, uriVars, loadVars, calls>>

NextGuard == GuardResolve \/ GuardValidate \/ GuardDeny

SpecGuard == InitGuard /\ [][NextGuard]_vars

(***************************************************************************)
(* The URI adapter by itself: getResourceUri applied to the topics the     *)
(* callers name, isValidResourceUri and extractTopicFromUri applied to the *)
(* URIs so built and to URIs given as they are.                            *)
(*   uriIn   the topic, then the URI                                       *)
(*   uriOut  what the two functions make of the URI                        *)
(***************************************************************************)
InitUri ==
    /\ fsState = [t \in Catalog |-> "ok"]
    /\ pc = "idle"
    /\ req = None
    /\ parsed = None
    /\ pending = None
    /\ resp = None
    /\ reads = <<>>
    /\ logs = <<>>
    /\ ref = None
    /\ guardIn = None
    /\ guardOut = None
    /\ uriOut = None
    /\ loadIn = None
    /\ loadOut = None
    /\ calls = <<>>
    /\ \/ \E t \in Topics :
              uriIn = [kind |-> "topic", topic |-> t, uri |-> <<>>]
       \/ \E u \in Uris :
              uriIn = [kind |-> "uri", topic |-> <<>>, uri |-> u]

\* getResourceUri(topic)
UriBuild ==
    /\ uriIn.kind = "topic"
    /\ uriIn' = [uriIn EXCEPT !.kind = "built",
                               !.uri = getResourceUri(uriIn.topic)]
    /\ UNCHANGED <<fsState, serverVars, guardVars, uriOut, loadVars, calls>>

\* isValidResourceUri(uri) and extractTopicFromUri(uri)
UriParse ==
    /\ uriIn.kind \in {"built", "uri"}
    /\ uriOut = None
    /\ uriOut' = [kind |-> "parsed",
                  valid |-> isValidResourceUri(uriIn.uri),
                  topic |-> extractTopicFromUri(uriIn.uri)]
    /\ UNCHANGED <<fsState, serverVars, guardVars, uriIn, loadVars, calls>>

NextUri == UriBuild \/ UriParse

SpecUri == InitUri /\ [][NextUri]_vars

(***************************************************************************)
(* The catch block of getPractice by itself: the read of the backing file  *)
(* of a Catalog topic settles in one of the ways a read can settle, and    *)
(* getPractice goes on from there.                                         *)
(*   loadIn   the topic, its location and what the read settled with       *)
(*   loadOut  how getPractice ended                                        *)
(***************************************************************************)
OtherReadCodes == {"EIO", "EMFILE", "ENOTDIR", "EPERM"}

\* what await fs.readFile(p, "utf-8") can settle with
ReadOutcomes(p) ==
    {FsReadFile(p, [t \in Catalog |-> s]) : s \in FileStates}
    \cup {FsError(code, p) : code \in OtherReadCodes}
    \cup {ErrorWithoutCode, NonErrorValue}

InitLoad ==
    /\ fsState = [t \in Catalog |-> "ok"]
    /\ pc = "idle"
    /\ req = None
    /\ parsed = None
    /\ pending = None
    /\ resp = None
    /\ reads = <<>>
    /\ logs = <<>>
    /\ ref = None
    /\ guardIn = None
    /\ guardOut = None
    /\ uriIn = None
    /\ uriOut = None
    /\ loadOut = None
    /\ calls = <<>>
    /\ \E t \in Catalog :
           \E o \in ReadOutcomes(BackingPath(t)) :
               loadIn = [topic |-> t, filePath |-> BackingPath(t),
                         outcome |-> o]

\* const content = await fs.readFile(...) and the rest of getPractice
LoadSettle ==
    /\ loadOut = None
    /\ loadOut' = getPracticeSettle(loadIn.topic, loadIn.filePath,
                                    loadIn.outcome)
    /\ UNCHANGED <<fsState, serverVars, guardVars, uriVars, loadIn, calls>>

NextLoad == LoadSettle

SpecLoad == InitLoad /\ [][NextLoad]_vars

(***************************************************************************)
(* getPractice called by several callers at a time.  Each invocation has   *)
(* its own locals (args.topic, filePath); it yields at its await of        *)
(* fs.readFile, where the invocations of the other callers may begin or    *)
(* go on.  The files are as they are when the callers begin: each is       *)
(* there or missing.                                                       *)
(*   calls[c]  the invocation of caller c: where it is, its topic, its     *)
(*             filePath, how it ended, and whether another invocation was  *)
(*             awaiting its read when this one's read settled              *)
(***************************************************************************)
Callers == 1..NumCallers

IdleCall ==
    [pc |-> "idle", topic |-> <<>>, filePath |-> <<>>, result |-> None,
     overlapped |-> FALSE]

InitConc ==
    /\ fsState \in {fs \in [Catalog -> {"ok", "ENOENT"}] :
                        Cardinality(Faulty(fs)) <= MaxFaulty}
    /\ pc = "idle"
    /\ req = None
    /\ parsed = None
    /\ pending = None
    /\ resp = None
    /\ reads = <<>>
    /\ logs = <<>>
    /\ ref = None
    /\ guardIn = None
    /\ guardOut = None
    /\ uriIn = None
    /\ uriOut = None
    /\ loadIn = None
    /\ loadOut = None
    /\ calls = [c \in Callers |-> IdleCall]

\* a filePath shared by the invocations: the one of some call in flight
FilePathOf_Shared(c) ==
    calls[CHOOSE d \in Callers : calls[d].pc = "reading"].filePath

\* const filePath, a local of the invocation
FilePathOf(c) == calls[c].filePath

\* caller c calls getPractice({ topic }): the invocation runs to its await
ConcCall(c, topic) ==
    /\ calls[c].pc = "idle"
    /\ LET g == getPracticeStart(topic)
       IN  calls' = [calls EXCEPT ![c] =
                        IF g.kind = "throw"
                        THEN [pc |-> "done", topic |-> topic,
                              filePath |-> <<>>, result |-> Thrown(g.error),
                              overlapped |-> FALSE]
                        ELSE [pc |-> "reading", topic |-> topic,
                              filePath |-> g.filePath, result |-> None,
                              overlapped |-> FALSE]]
    /\ UNCHANGED <<fsState, serverVars, guardVars, uriVars, loadVars>>

\* the read of caller c's invocation settles and the invocation ends
ConcSettle(c) ==
    /\ calls[c].pc = "reading"
    /\ LET outcome == FsReadFile(FilePathOf(c), fsState)
           g == getPracticeSettle(calls[c].topic, FilePathOf(c), outcome)
       IN  calls' = [calls EXCEPT ![c] =
                        [pc |-> "done", topic |-> calls[c].topic,
                         filePath |-> calls[c].filePath,
                         result |-> IF g.kind = "return"
                                    THEN Returned(g.content)
                                    ELSE Thrown(g.error),
                         overlapped |->
                             \E d \in Callers \ {c} :
                                 calls[d].pc = "reading"]]
    /\ fsState' = FilesAfterRead(fsState, FilePathOf(c))
    /\ UNCHANGED <<serverVars, guardVars, uriVars, loadVars>>

\* caller c has taken the outcome of its call
ConcTake(c) ==
    /\ calls[c].pc = "done"
    /\ calls' = [calls EXCEPT ![c] = IdleCall]
    /\ UNCHANGED <<fsState, serverVars, guardVars, uriVars, loadVars>>

NextConc ==
    \/ \E c \in Callers, t \in Catalog : ConcCall(c, t)
    \/ \E c \in Callers : ConcSettle(c)
    \/ \E c \in Callers : ConcTake(c)

SpecConc == InitConc /\ [][NextConc]_vars

(***************************************************************************)
(* Vocabulary of the properties.                                           *)
(***************************************************************************)
\* T differs from the key k at most in the case of its letters
IsCaseVariant(T, k) ==
    Len(T) = Len(k) /\ \A i \in 1..Len(k) : T[i] \in CaseForms(k[i])

\* where the document of topic t is stored: <cwd>/src/data/<file of t>
ExpectedLocation(t) == Cwd \o <<"/">> \o SrcData \o <<"/">> \o TOPIC_TO_FILE(t)

IsToolRequest == req.kind = "tool" /\ req.name = ToolName

IsStringToolRequest == IsToolRequest /\ req.arguments.kind = "string"

OnSurface == req.kind \in {"tool", "resource"}

\* the handler answered with the document
Succeeded ==
    /\ pc = "done"
    /\ resp.kind = "result"
    /\ req.kind = "tool" => ~resp.isError

\* the text the caller is given: the answer's, or the thrown error's
CallerMessage ==
    IF resp.kind = "throw" THEN resp.error.message
    ELSE IF req.kind = "tool" THEN resp.content[1].text
    ELSE IF req.kind = "resource" THEN resp.contents[1].text
    ELSE resp.content

\* the request names the key t, by the rules of its surface
RequestNames(t) ==
    CASE req.kind = "tool" -> IsCaseVariant(req.arguments.val, t)
      [] req.kind = "resource" -> req.uri = PracticeScheme \o t
      [] req.kind = "direct" -> req.topic = t

\* the message carries a location of the file system or text of an OS error
HasInternalDetail(m) == \E i \in 1..Len(m) : m[i][1] \in {"path", "os"}

Letters == {LowerOf[u] : u \in DOMAIN LowerOf} \cup (DOMAIN LowerOf \ {"KELVIN"})

IsTraversalPayload(s) ==
    \/ Contains(s, <<".", ".">>)
    \/ Len(s) >= 1 /\ s[1] = "/"
    \/ Len(s) >= 2 /\ s[1] \in Letters /\ s[2] = ":"
    \/ HasChar(s, "NUL")

\* the canonical form of c is the root or lies under it, segment by segment
InsideRoot(c) ==
    LET cs == SplitSlash(PathNormalize(c))
        rs == SplitSlash(BasePath)
    IN  Len(cs) >= Len(rs) /\ SubSeq(cs, 1, Len(rs)) = rs

(***************************************************************************)
(* C1.  Through the tool and the resource surface, whatever strings the    *)
(* callers send, a document is returned only for a topic whose key is in   *)
(* the Catalog, and every read asked of the file system is of the backing  *)
(* file of a Catalog topic under <cwd>/src/data.                           *)
(***************************************************************************)
C1_OnlyCatalogRetrievable ==
    OnSurface =>
        /\ \A i \in 1..Len(reads) :
               \E t \in Catalog : reads[i] = ExpectedLocation(t)
        /\ Succeeded =>
               \E t \in Catalog :
                   /\ RequestNames(t)
                   /\ CallerMessage = <<<<"content", t>>>>
                   /\ reads = <<ExpectedLocation(t)>>

C1_Witness ==
    /\ Succeeded
    /\ req.kind = "resource"
    /\ reads = <<ExpectedLocation(tanstack_query)>>

(***************************************************************************)
(* C2.  getPracticeSchema accepts a raw string if and only if its length   *)
(* is from 1 to 50 and it is, up to letter case, exactly one Catalog key;  *)
(* the topic it returns is then that key.                                  *)
(***************************************************************************)
C2_ValidatorAcceptsExactlyKeys ==
    IsStringToolRequest =>
        LET raw == req.arguments.val
        IN  /\ parsed.kind = "ok" <=>
                   /\ Len(raw) >= 1
                   /\ Len(raw) <= 50
                   /\ \E k \in Catalog : IsCaseVariant(raw, k)
            /\ parsed.kind = "ok" =>
                   parsed.topic \in Catalog /\ IsCaseVariant(raw, parsed.topic)

C2_Witness ==
    /\ IsStringToolRequest
    /\ parsed.kind = "ok"
    /\ req.arguments.val \notin Catalog
    /\ parsed.topic = tanstack_query

(***************************************************************************)
(* C3.  For a Catalog key t and a case variant T of it, the validator      *)
(* gives for T what it gave for t: both are accepted with the topic t.     *)
(***************************************************************************)
C3_ValidatorCaseInsensitive ==
    (/\ IsStringToolRequest
     /\ ref.kind = "ref"
     /\ ref.surface = "tool"
     /\ IsCaseVariant(req.arguments.val, ref.topic))
    => /\ parsed = ref.parsed
       /\ parsed.kind = "ok"
       /\ parsed.topic = ref.topic

C3_Witness ==
    /\ IsStringToolRequest
    /\ ref.kind = "ref"
    /\ ref.surface = "tool"
    /\ IsCaseVariant(req.arguments.val, ref.topic)
    /\ req.arguments.val # ref.topic
    /\ parsed.kind = "ok"

(***************************************************************************)
(* C4.  A get_best_practice call whose topic is a case variant of a        *)
(* Catalog key gets the response the call with the key itself got, the     *)
(* files being as they were: the same content, or the same error.          *)
(***************************************************************************)
C4_ToolCaseInsensitive ==
    (/\ pc = "done"
     /\ IsStringToolRequest
     /\ ref.kind = "ref"
     /\ ref.surface = "tool"
     /\ IsCaseVariant(req.arguments.val, ref.topic))
    => resp = ref.resp

C4_Witness ==
    /\ pc = "done"
    /\ IsStringToolRequest
    /\ ref.kind = "ref"
    /\ ref.surface = "tool"
    /\ IsCaseVariant(req.arguments.val, ref.topic)
    /\ req.arguments.val # ref.topic
    /\ resp.isError
    /\ fsState[ref.topic] = "EACCES"

(***************************************************************************)
(* C5.  getPractice called by itself treats topics case-insensitively: a   *)
(* case variant T of a Catalog key t returns what t returned.              *)
(***************************************************************************)
C5_GetPracticeCaseInsensitive ==
    (/\ pc = "done"
     /\ req.kind = "direct"
     /\ ref.kind = "ref"
     /\ ref.surface = "direct"
     /\ IsCaseVariant(req.topic, ref.topic))
    => resp = ref.resp

(***************************************************************************)
(* C6.  getPractice throws NotFoundError, its message containing           *)
(* "not found", for every topic that is not a Catalog key, the names of    *)
(* inherited object properties included; it throws no other kind of error  *)
(* for such a topic, returns nothing and reads nothing.                    *)
(***************************************************************************)
C6_UnknownTopicIsNotFound ==
    (req.kind = "direct" /\ req.topic \notin Catalog)
    => /\ pc = "done"
       /\ resp.kind = "throw"
       /\ resp.error.cls = "NotFoundError"
       /\ \E i \in 1..Len(resp.error.message) :
              resp.error.message[i] = Lit(" not found")
       /\ reads = <<>>

(***************************************************************************)
(* C7.  A topic with "..", a leading "/", a drive letter or a NUL is never *)
(* resolved: getPractice ends with an error, without content and without   *)
(* a read.                                                                 *)
(***************************************************************************)
C7_PayloadsNeverResolved ==
    (req.kind = "direct" /\ IsTraversalPayload(req.topic))
    => /\ pc = "done"
       /\ resp.kind = "throw"
       /\ reads = <<>>
       /\ pending = None

C7_Witness ==
    /\ pc = "done"
    /\ req.kind = "direct"
    /\ req.topic = ExpectedLocation(react)
    /\ resp.kind = "throw"

C8_AcceptsExactlyInsideRoot ==
    guardOut.kind = "verdict" =>
        (guardOut.accepted <=> InsideRoot(guardIn.candidate))

(***************************************************************************)
(* C9.  Every failure on the tool or the resource surface ends in a        *)
(* structured response: no handler ends by throwing.                       *)
(***************************************************************************)
C9_NoHandlerThrows ==
    (pc = "done" /\ OnSurface) => resp.kind = "result"

(***************************************************************************)
(* C10.  No message a caller gets from either surface carries internal     *)
(* detail: a location of the file system or the text of an OS error.       *)
(***************************************************************************)
C10_NoInternalDetail ==
    (pc = "done" /\ OnSurface) => ~HasInternalDetail(CallerMessage)

\* an exchange on one surface is at hand next to the same topic's on the other
C11_Compared ==
    /\ pc = "done"
    /\ ref.kind = "ref"
    /\ \/ /\ ref.surface = "tool"
          /\ req.kind = "resource"
          /\ req.uri = getResourceUri(ref.topic)
       \/ /\ ref.surface = "resource"
          /\ IsStringToolRequest
          /\ req.arguments.val = ref.topic

(***************************************************************************)
(* C11.  For a Catalog topic t, the files being as they were, the tool     *)
(* call with t and the resource read of getResourceUri(t) succeed          *)
(* together or fail together, and when they succeed the text of the one    *)
(* is the text of the other.                                               *)
(***************************************************************************)
C11_SurfacesEquivalent ==
    C11_Compared =>
        LET toolResp == IF req.kind = "tool" THEN resp ELSE ref.resp
            resourceResp == IF req.kind = "resource" THEN resp ELSE ref.resp
            toolOk == toolResp.kind = "result" /\ ~toolResp.isError
            resourceOk == resourceResp.kind = "result"
        IN  /\ toolOk <=> resourceOk
            /\ toolOk =>
                   toolResp.content[1].text = resourceResp.contents[1].text

C11_Witness ==
    /\ C11_Compared
    /\ ref.surface = "tool"
    /\ ref.topic = zustand
    /\ Succeeded
    /\ resp.contents[1].text = <<<<"content", zustand>>>>

\* the same comparison, the two having failed
C11_WitnessFailed ==
    /\ C11_Compared
    /\ ref.surface = "resource"
    /\ ref.resp.kind = "throw"
    /\ resp.isError
    /\ fsState[ref.topic] = "ENOENT"

(***************************************************************************)
(* C12.  extractTopicFromUri(getResourceUri(t)) is t for every Catalog     *)
(* topic t; getResourceUri gives different URIs for different topics; a    *)
(* URI that is given a topic is the URI of that topic and of no other.     *)
(***************************************************************************)
C12_UriRoundTrip ==
    /\ (uriIn.kind = "built" /\ uriIn.topic \in Catalog) =>
           /\ \A t \in Catalog \ {uriIn.topic} :
                  getResourceUri(t) # uriIn.uri
           /\ uriOut.kind = "parsed" =>
                  /\ uriOut.topic.kind = "topic"
                  /\ uriOut.topic.topic = uriIn.topic
    /\ (uriOut.kind = "parsed" /\ uriOut.topic.kind = "topic") =>
           {t \in Catalog : getResourceUri(t) = uriIn.uri}
               = {uriOut.topic.topic}

C12_Witness ==
    /\ uriIn.kind = "built"
    /\ uriIn.topic = tanstack_query
    /\ uriOut.kind = "parsed"
    /\ uriOut.topic.kind = "topic"
    /\ uriOut.topic.topic = tanstack_query

\* the URI is "practice://" followed by a Catalog key
C13_IsTopicUri ==
    \E t \in {react, nextjs, typescript, zustand, tanstack_query, ui} :
        uriIn.uri = <<"p", "r", "a", "c", "t", "i", "c", "e", ":", "/", "/">> \o t

(***************************************************************************)
(* C13.  For every string that is not "practice://" followed by a Catalog  *)
(* key (another scheme, the scheme in another letter case, no segment, a   *)
(* further segment, an unknown topic, the empty string)                    *)
(* extractTopicFromUri gives null and isValidResourceUri gives false; the  *)
(* two functions give a value for every string.                            *)
(***************************************************************************)
C13_OtherUrisRejected ==
    /\ uriOut.kind = "parsed" =>
           /\ uriOut.valid \in BOOLEAN
           /\ uriOut.topic.kind \in {"none", "topic"}
           /\ ~C13_IsTopicUri => (uriOut.topic = None /\ ~uriOut.valid)
    /\ ENABLED UriParse <=> (uriIn.kind \in {"built", "uri"} /\ uriOut = None)

C13_Witness ==
    /\ uriOut.kind = "parsed"
    /\ uriIn.uri = <<"P", "R", "A", "C", "T", "I", "C", "E", ":", "/", "/",
                     "r", "e", "a", "c", "t">>
    /\ uriOut.topic = None
    /\ ~uriOut.valid

\* the text has a character
C14_NonEmpty(text) == \E i \in 1..Len(text) : text[i][2] # ""

(***************************************************************************)
(* C14.  The resource list has one entry for each Catalog topic and no     *)
(* other: as many entries as the Catalog has topics, their URIs pairwise   *)
(* different and each the URI of its topic, each with a non-empty name, a  *)
(* non-empty description and the MIME type text/markdown; a later call     *)
(* gets the list an earlier call got, whatever happened to the files.      *)
(***************************************************************************)
C14_ListIsCatalog ==
    (pc = "done" /\ req.kind = "list") =>
        /\ resp.kind = "result"
        /\ LET rs == resp.resources
           IN  /\ Len(rs) = Cardinality(Catalog)
               /\ \A t \in Catalog :
                      \E i \in 1..Len(rs) :
                          rs[i].uri = <<"p", "r", "a", "c", "t", "i", "c", "e",
                                        ":", "/", "/">> \o t
               /\ \A i \in 1..Len(rs) :
                      /\ \E t \in Catalog : rs[i].uri = getResourceUri(t)
                      /\ \A j \in 1..Len(rs) : rs[j].uri = rs[i].uri => j = i
                      /\ C14_NonEmpty(rs[i].name)
                      /\ C14_NonEmpty(rs[i].description)
                      /\ rs[i].mimeType = "text/markdown"
        /\ (ref.kind = "ref" /\ ref.surface = "list") => resp = ref.resp

C14_Witness ==
    /\ pc = "done"
    /\ req.kind = "list"
    /\ ref.kind = "ref"
    /\ ref.surface = "list"
    /\ fsState[react] = "ENOENT"
    /\ resp.resources[5].name = <<Lit("TanStack Query"), Lit(" Best Practices")>>

(***************************************************************************)
(* C15.  A failed read ends getPractice in one of two ways: with           *)
(* NotFoundError when the read failed with the code ENOENT, with           *)
(* FileReadError for every other failure (permission denied, another I/O   *)
(* error, an Error without a code, a thrown value that is no Error); no    *)
(* other kind of error comes out of a failed read.                         *)
(***************************************************************************)
C15_ReadFailureClasses ==
    (loadOut # None /\ loadIn.outcome.kind # "data") =>
        LET o == loadIn.outcome
            missing == o.kind = "error" /\ o.code = "ENOENT"
        IN  /\ loadOut.kind = "throw"
            /\ loadOut.error.cls \in {"NotFoundError", "FileReadError"}
            /\ missing => loadOut.error.cls = "NotFoundError"
            /\ ~missing => loadOut.error.cls = "FileReadError"

C15_Witness ==
    /\ loadOut # None
    /\ loadIn.outcome = NonErrorValue
    /\ loadOut.kind = "throw"
    /\ loadOut.error.cls = "FileReadError"

\* the two classes both occur
C15_WitnessNotFound ==
    /\ loadOut # None
    /\ loadIn.outcome.kind = "error"
    /\ loadIn.outcome.code = "ENOENT"
    /\ loadOut.error.cls = "NotFoundError"

\* the fragment f is part of the message m
HasFragment(m, f) == \E i \in 1..Len(m) : m[i] = f

\* the raw topic of a tool call is, up to letter case, a Catalog key
NamesCatalogKey(raw) == \E k \in Catalog : IsCaseVariant(raw, k)

\* getPractice was not entered: nothing resolved, checked, read or logged by it
GetPracticeNotEntered ==
    /\ reads = <<>>
    /\ pending = None
    /\ \A i \in 1..Len(logs) :
           logs[i].message \notin {"Unknown topic requested",
                                   "Path traversal attempt detected",
                                   "Reading practice file",
                                   "Successfully read practice file",
                                   "Practice file not found",
                                   "Failed to read practice file"}

(***************************************************************************)
(* C16.  A get_best_practice call whose topic is empty, longer than 50     *)
(* characters or not a Catalog key is answered with an error message that  *)
(* names the problem, lists every Catalog key and carries no location of   *)
(* the file system.                                                        *)
(***************************************************************************)
C16_ValidationMessage ==
    (/\ IsStringToolRequest
     /\ \/ Len(req.arguments.val) = 0
        \/ Len(req.arguments.val) > 50
        \/ ~NamesCatalogKey(req.arguments.val))
    => LET raw == req.arguments.val
           text == resp.content[1].text
       IN  /\ pc = "done"
           /\ resp.isError
           /\ Len(raw) = 0 => HasFragment(text, Lit("Topic cannot be empty"))
           /\ Len(raw) > 50 => HasFragment(text, Lit("Topic too long"))
           /\ ~NamesCatalogKey(raw) =>
                  HasFragment(text, Lit("Invalid topic. Must be one of: "))
           /\ \A k \in Catalog : HasFragment(text, <<"topic", k>>)
           /\ ~HasInternalDetail(text)

C16_Witness ==
    /\ pc = "done"
    /\ IsStringToolRequest
    /\ Len(req.arguments.val) = 51
    /\ resp.isError
    /\ HasFragment(resp.content[1].text, Lit("Topic too long"))
    /\ HasFragment(resp.content[1].text, <<"topic", ui>>)

(***************************************************************************)
(* C17, as the spec states it.  An empty or over-long raw topic is         *)
(* rejected before anything else is done with it: the rejection carries    *)
(* the issue of the length check and no issue of a whitelist comparison.   *)
(***************************************************************************)
C17_RejectedBeforeProcessing ==
    (/\ IsStringToolRequest
     /\ Len(req.arguments.val) = 0 \/ Len(req.arguments.val) > 50)
    => /\ parsed.kind = "ZodError"
       /\ \A i \in 1..Len(parsed.issues) :
              ~HasFragment(parsed.issues[i],
                           Lit("Invalid topic. Must be one of: "))

(***************************************************************************)
(* C17, amended.  An empty or over-long raw topic is always rejected, the  *)
(* issue of the length check coming first, and getPractice is not entered; *)
(* the schema still lowers the string and compares it with the whitelist,  *)
(* so the rejection carries the invalid-topic issue as well.               *)
(***************************************************************************)
C17_LengthRejected ==
    (/\ IsStringToolRequest
     /\ Len(req.arguments.val) = 0 \/ Len(req.arguments.val) > 50)
    => /\ pc = "done"
       /\ parsed.kind = "ZodError"
       /\ parsed.issues[1] = IF Len(req.arguments.val) = 0
                             THEN <<Lit("Topic cannot be empty")>>
                             ELSE <<Lit("Topic too long")>>
       /\ Len(parsed.issues) = 2
       /\ HasFragment(parsed.issues[2],
                      Lit("Invalid topic. Must be one of: "))
       /\ resp.isError
       /\ GetPracticeNotEntered

C17_Witness ==
    /\ pc = "done"
    /\ IsStringToolRequest
    /\ req.arguments.val = <<>>
    /\ parsed.kind = "ZodError"
    /\ Len(parsed.issues) = 2

(***************************************************************************)
(* C18.  On the tool surface a topic that is no Catalog key gets the       *)
(* answer of a failed validation and getPractice is not entered for it:    *)
(* no path is resolved or checked and nothing is read; a Catalog topic     *)
(* whose file is missing gets the not-found answer, after one read of its  *)
(* file; the two answers differ.                                           *)
(***************************************************************************)
C18_UnknownVsMissing ==
    IsStringToolRequest =>
        LET raw == req.arguments.val
        IN  /\ ~NamesCatalogKey(raw) =>
                   /\ pc = "done"
                   /\ resp.isError
                   /\ resp.content[1].text[1] = Lit("Invalid input: ")
                   /\ GetPracticeNotEntered
            /\ \A k \in Catalog :
                   (/\ pc = "done"
                    /\ IsCaseVariant(raw, k)
                    /\ fsState[k] = "ENOENT")
                   => /\ resp.isError
                      /\ resp.content[1].text[1]
                             = Lit("Best practice file for topic: ")
                      /\ resp.content[1].text[1] # Lit("Invalid input: ")
                      /\ HasFragment(resp.content[1].text, Lit(" not found"))
                      /\ reads = <<ExpectedLocation(k)>>

C18_Witness ==
    /\ pc = "done"
    /\ IsStringToolRequest
    /\ req.arguments.val = <<"n", "o", "n", "e", "x", "i", "s", "t", "e", "n", "t">>
    /\ resp.isError
    /\ reads = <<>>

\* the other half: a Catalog topic whose file is missing
C18_WitnessMissing ==
    /\ pc = "done"
    /\ IsStringToolRequest
    /\ req.arguments.val = typescript
    /\ fsState[typescript] = "ENOENT"
    /\ HasFragment(resp.content[1].text, Lit(" not found"))

\* the URI read is "practice://" followed by the key t
C19_IsTopicUri(t) ==
    req.uri = <<"p", "r", "a", "c", "t", "i", "c", "e", ":", "/", "/">> \o t

(***************************************************************************)
(* C19.  A resource read whose URI is not "practice://" followed by a      *)
(* Catalog key ends with the invalid-URI error and nothing is read; that   *)
(* error differs from the one a read of a missing document ends with.      *)
(***************************************************************************)
C19_InvalidUriDistinct ==
    req.kind = "resource" =>
        /\ (\A t \in Catalog : ~C19_IsTopicUri(t)) =>
               /\ pc = "done"
               /\ resp.kind = "throw"
               /\ resp.error.message[1] = Lit("Invalid resource URI: ")
               /\ ~HasFragment(resp.error.message, Lit(" not found"))
               /\ GetPracticeNotEntered
        /\ \A t \in Catalog :
               (pc = "done" /\ C19_IsTopicUri(t) /\ fsState[t] = "ENOENT")
               => /\ resp.kind = "throw"
                  /\ resp.error.message[1] = Lit("Failed to read resource: ")
                  /\ HasFragment(resp.error.message, Lit(" not found"))
                  /\ reads = <<ExpectedLocation(t)>>

C19_Witness ==
    /\ pc = "done"
    /\ req.kind = "resource"
    /\ req.uri = <<"p", "r", "a", "c", "t", "i", "c", "e", ":", "/", "/",
                   "r", "e", "a", "c", "t", "/", "e", "x", "t", "r", "a">>
    /\ resp.kind = "throw"
    /\ reads = <<>>

(***************************************************************************)
(* C20.  However the getPractice calls of parallel callers interleave,     *)
(* each caller gets the outcome of its own topic: the document of that     *)
(* topic when its file is there, the not-found error naming that topic     *)
(* when it is missing; never the document or the error of the topic of     *)
(* another caller.                                                         *)
(***************************************************************************)
C20_EachCallerItsOwnTopic ==
    \A c \in DOMAIN calls :
        calls[c].pc = "done" =>
            LET t == calls[c].topic
                r == calls[c].result
            IN  IF fsState[t] = "ok"
                THEN r.kind = "return" /\ r.content = <<<<"content", t>>>>
                ELSE /\ r.kind = "throw"
                     /\ r.error.cls = "NotFoundError"
                     /\ r.error.message
                            = <<Lit("Best practice file for topic: "),
                                <<"input", t>>, Lit(" not found")>>

C20_Witness ==
    /\ DOMAIN calls = 1..2
    /\ calls[1].pc = "done"
    /\ calls[2].pc = "done"
    /\ calls[1].topic = react
    /\ calls[2].topic = zustand
    /\ calls[1].overlapped
    /\ calls[1].result.kind = "return"
    /\ calls[2].result.kind = "return"

(***************************************************************************)
(* C21.  A tool call that succeeds answers with one content item of type   *)
(* "text/markdown" whose text is what the read of the backing file gave,   *)
(* as it is; a resource read that succeeds answers with one item: the URI  *)
(* asked for, the MIME type "text/markdown" and that same text.            *)
(***************************************************************************)
C21_ContentVerbatim ==
    (Succeeded /\ OnSurface) =>
        \E t \in Catalog :
            /\ RequestNames(t)
            /\ fsState[t] = "ok"
            /\ IF req.kind = "tool"
               THEN /\ Len(resp.content) = 1
                    /\ resp.content[1].type = "text/markdown"
                    /\ resp.content[1].text = <<<<"content", t>>>>
               ELSE /\ Len(resp.contents) = 1
                    /\ resp.contents[1].uri = req.uri
                    /\ resp.contents[1].mimeType = "text/markdown"
                    /\ resp.contents[1].text = <<<<"content", t>>>>

C21_Witness ==
    /\ Succeeded
    /\ IsStringToolRequest
    /\ req.arguments.val = nextjs
    /\ resp.content[1].type = "text/markdown"
    /\ resp.content[1].text = <<<<"content", nextjs>>>>

\* the topic the request hands to getPractice once its surface has taken it
HandedTopic ==
    CASE req.kind = "tool" -> parsed.topic
      [] req.kind = "resource" -> SubSeq(req.uri, 12, Len(req.uri))
      [] req.kind = "direct" -> req.topic

\* the request has passed the check of its surface against the Catalog
AcceptedBySurface ==
    CASE req.kind = "tool" -> IsStringToolRequest /\ parsed.kind = "ok"
      [] req.kind = "resource" ->
             \E t \in Catalog : req.uri = PracticeScheme \o t
      [] req.kind = "direct" -> TRUE

(***************************************************************************)
(* C22.  A read is asked of the file system only after the topic of the    *)
(* request was accepted against the Catalog and the location derived from  *)
(* it in this call has passed the containment check: whenever a request    *)
(* has a read behind it, its topic is a Catalog key, the location read is  *)
(* the one resolved from that key's file name under the storage root, and  *)
(* validatePath holds of it; the log of the request shows the read begun   *)
(* after the request was received, and no rejection by a check.            *)
(***************************************************************************)
C22_ReadAfterValidationAndGuard ==
    (req # None /\ req.kind # "list" /\ reads # <<>>) =>
        /\ AcceptedBySurface
        /\ HandedTopic \in Catalog
        /\ reads[1] = PathResolve(<<BasePath, TOPIC_TO_FILE(HandedTopic)>>)
        /\ validatePath(BasePath, reads[1])
        /\ InsideRoot(reads[1])
        /\ \E i \in 1..Len(logs) :
               /\ logs[i].message = "Reading practice file"
               /\ OnSurface =>
                      /\ i > 1
                      /\ logs[1].message \in {"CallTool request received",
                                              "ReadResource request received"}
        /\ \A i \in 1..Len(logs) :
               logs[i].message \notin {"Validation error",
                                       "Invalid resource URI",
                                       "Path traversal attempt detected"}

C22_Witness ==
    /\ pc = "reading"
    /\ IsStringToolRequest
    /\ req.arguments.val = AllUpper(zustand)
    /\ reads = <<ExpectedLocation(zustand)>>

(***************************************************************************)
(* C23.  A request asks the file system for at most one read, and for      *)
(* exactly one when its topic was accepted, the containment check passing  *)
(* for every Catalog key; when the read fails the request ends with the    *)
(* failure, no second read having been asked for.                          *)
(***************************************************************************)
C23_OneReadNoRetry ==
    /\ Len(reads) <= 1
    /\ (/\ req # None
        /\ req.kind # "list"
        /\ AcceptedBySurface
        /\ HandedTopic \in Catalog)
       => /\ pc \in {"reading", "done"}
          /\ reads = <<ExpectedLocation(HandedTopic)>>
          /\ (pc = "done" /\ fsState[HandedTopic] # "ok") =>
                 IF req.kind = "tool" THEN resp.isError
                 ELSE resp.kind = "throw"

C23_Witness ==
    /\ pc = "done"
    /\ IsStringToolRequest
    /\ parsed.kind = "ok"
    /\ fsState[parsed.topic] = "EACCES"
    /\ resp.isError
    /\ Len(reads) = 1

\* the answer the request now ended would have got, the read of the file of
\* t having failed with the error of state s
AnswerHadReadFailed(t, s) ==
    LET filePath == ExpectedLocation(t)
        g == getPracticeSettle(t, filePath, FsError(s, filePath))
    IN  IF req.kind = "tool" THEN ToolCatch(g.error).resp
        ELSE ResourceCatch(g.error).resp

(***************************************************************************)
(* C24.  When the read of a topic fails with an error other than ENOENT,   *)
(* the caller is told that retrieval failed and not why: the answer is the *)
(* one the same request would have got had the read failed with any other  *)
(* such error, on the tool surface and on the resource surface.            *)
(***************************************************************************)
C24_ReadFailuresAlike ==
    \A t \in Catalog :
        (/\ pc = "done"
         /\ OnSurface
         /\ AcceptedBySurface
         /\ HandedTopic = t
         /\ fsState[t] \notin {"ok", "ENOENT"})
        => \A s \in {"EACCES", "EISDIR", "EIO", "EPERM"} :
               resp = AnswerHadReadFailed(t, s)

\* the same on the tool surface alone, where it holds
C24_ToolReadFailuresAlike ==
    \A t \in Catalog :
        (/\ pc = "done"
         /\ IsStringToolRequest
         /\ AcceptedBySurface
         /\ HandedTopic = t
         /\ fsState[t] \notin {"ok", "ENOENT"})
        => /\ \A s \in {"EACCES", "EISDIR", "EIO", "EPERM"} :
                  resp = AnswerHadReadFailed(t, s)
           /\ resp.content[1].text =
                  <<Lit("An error occurred while retrieving the best practice")>>

\* the log entry carries the topic and the location that was refused
CarriesDetail(entry) ==
    /\ \/ HasFragment(entry.data, <<"input", GuardTopic>>)
       \/ HasFragment(entry.error, <<"input", GuardTopic>>)
    /\ \/ HasFragment(entry.data, <<"path", guardIn.candidate>>)
       \/ HasFragment(entry.error, <<"path", guardIn.candidate>>)

C25_RefusalAnsweredGenerically ==
    guardOut.kind = "denied" =>
        /\ guardOut.error.cls = "SecurityError"
        /\ \E i \in 1..Len(guardOut.logs) : guardOut.logs[i].level = "error"
        /\ \A i \in 1..Len(guardOut.logs) :
               guardOut.logs[i].error = <<Lit("[object Object]")>>
        /\ guardOut.toolResp.isError
        /\ guardOut.toolResp.content[1].text = <<Lit("Access denied")>>
        /\ ~HasInternalDetail(guardOut.resourceResp.error.message)

(***************************************************************************)
(* C26.  A resource read reaches getPractice only with a URI that is       *)
(* "practice://" followed by a Catalog key, a string getPracticeSchema     *)
(* accepts too and turns into the same topic: what a resource read can     *)
(* retrieve, a tool call can retrieve.                                     *)
(***************************************************************************)
C26_ResourceCannotBypass ==
    (req.kind = "resource" /\ ~GetPracticeNotEntered) =>
        \E t \in Catalog :
            /\ req.uri = <<"p", "r", "a", "c", "t", "i", "c", "e", ":", "/",
                           "/">> \o t
            /\ getPracticeSchema(StringArg(t)).kind = "ok"
            /\ getPracticeSchema(StringArg(t)).topic = t
            /\ reads = <<ExpectedLocation(t)>>

C26_Witness ==
    /\ req.kind = "resource"
    /\ pc = "reading"
    /\ req.uri = getResourceUri(typescript)
    /\ pending.topic = typescript

\* a step of a handler or of getPractice, and not one of the environment
HandlerStep ==
    \/ pc' # pc
    \/ req' # req
    \/ resp' # resp
    \/ reads' # reads
    \/ logs' # logs
    \/ calls' # calls

(***************************************************************************)
(* C27.  No step of a handler or of getPractice writes: whatever the       *)
(* request and however it ends, the backing files are after the step what  *)
(* they were before it.  (The Catalog is a constant of the program.)       *)
(***************************************************************************)
C27_NoWrites == [][HandlerStep => fsState' = fsState]_vars

C27_Witness ==
    /\ pc = "done"
    /\ req.kind = "resource"
    /\ Succeeded
    /\ reads = <<ExpectedLocation(ui)>>
    /\ fsState[ui] = "ok"

\* the location lies below the storage root and is not the root
StrictDescendant(p) == StartsWith(p, BasePath \o Sep) /\ Len(p) > Len(BasePath) + 1

(***************************************************************************)
(* C28.  With the Catalog as it is, the containment check never fails:     *)
(* whatever string a caller sends on any surface, getPractice throws no    *)
(* SecurityError and logs no traversal attempt, no answer is "Access       *)
(* denied", and every location handed to the file system, like the backing *)
(* file of every Catalog topic, is a strict descendant of the storage root.*)
(***************************************************************************)
C28_ContainmentNeverFails ==
    /\ \A t \in Catalog :
           StrictDescendant(PathResolve(<<BasePath, TOPIC_TO_FILE(t)>>))
    /\ \A i \in 1..Len(logs) :
           logs[i].message \notin {"Path traversal attempt detected",
                                   "Security violation"}
    /\ \A i \in 1..Len(reads) : StrictDescendant(reads[i])
    /\ pending # None => StrictDescendant(pending.filePath)
    /\ (pc = "done" /\ req.kind \in {"tool", "resource", "direct"}) =>
           /\ resp.kind = "throw" => resp.error.cls # "SecurityError"
           /\ ~HasFragment(CallerMessage, Lit("Access denied"))
           /\ ~HasFragment(CallerMessage, Lit("Invalid topic path"))

C28_Witness ==
    /\ pc = "done"
    /\ req.kind = "direct"
    /\ req.topic = nextjs
    /\ resp.kind = "return"
    /\ reads = <<PathResolve(<<BasePath, TOPIC_TO_FILE(nextjs)>>)>>
    /\ logs[1].message = "Reading practice file"

\* the message of the branch taken when extractTopicFromUri gives null
ExtractFailedLit == Lit("Could not extract topic from URI: ")

(***************************************************************************)
(* C29.  isValidResourceUri and extractTopicFromUri agree on every URI: the*)
(* first is true exactly when the second is not null.  So a resource read  *)
(* whose URI passed the validity check never ends in "Could not extract    *)
(* topic from URI": no thrown error and no log entry carries that text.    *)
(***************************************************************************)
C29_ValidIffExtractable ==
    req.kind = "resource" =>
        /\ isValidResourceUri(req.uri) <=> extractTopicFromUri(req.uri) # None
        /\ \A i \in 1..Len(logs) : ~HasFragment(logs[i].error, ExtractFailedLit)
        /\ (pc = "done" /\ resp.kind = "throw") =>
               ~HasFragment(resp.error.message, ExtractFailedLit)
        /\ (pc = "done" /\ ~isValidResourceUri(req.uri)) =>
               /\ resp.kind = "throw"
               /\ resp.error.message = <<Lit("Invalid resource URI: "),
                                          <<"input", req.uri>>>>

\* the same agreement on the two functions applied by themselves
C29_SameVerdict ==
    uriOut.kind = "parsed" => (uriOut.valid <=> uriOut.topic # None)

C29_Witness ==
    /\ pc = "done"
    /\ req.kind = "resource"
    /\ req.uri = PracticeScheme \o tanstack_query
    /\ isValidResourceUri(req.uri)
    /\ extractTopicFromUri(req.uri).topic = tanstack_query
    /\ Succeeded

(***************************************************************************)
(* C30.  A tool call whose name is not "get_best_practice" is answered at  *)
(* once with isError true and the text "Unknown tool: " followed by the    *)
(* name as sent, whatever its arguments: the arguments are not validated   *)
(* (nothing parsed, no "Validation error" entry), getPractice is not       *)
(* entered and nothing is read.                                            *)
(***************************************************************************)
C30_UnknownToolRejected ==
    (req.kind = "tool" /\ req.name # ToolName) =>
        /\ pc = "done"
        /\ resp = ToolResult(TRUE, "text",
                             <<Lit("Unknown tool: "), <<"input", req.name>>>>)
        /\ parsed = None
        /\ GetPracticeNotEntered
        /\ logs = <<LogData("debug", "CallTool request received",
                            <<<<"input", req.name>>>>),
                    LogData("warn", "Unknown tool requested",
                            <<<<"input", req.name>>>>)>>

C30_Witness ==
    /\ pc = "done"
    /\ req.kind = "tool"
    /\ req.name = AllUpper(ToolName)
    /\ req.arguments = StringArg(react)
    /\ resp.isError
    /\ resp.content[1].text = <<Lit("Unknown tool: "), <<"input", req.name>>>>
    /\ reads = <<>>

====
